---- MODULE Spec2Model ----
(***************************************************************************)
(* A model of the value comparison (values/compare.go), the filter         *)
(* registry of the engine (engine.go) and the evaluation of filter chains  *)
(* of autopilot3/liquid.                                                   *)
(***************************************************************************)
EXTENDS Integers, Sequences, FiniteSets, TLC

VARIABLES
    fn, a, b, res, panicked,   \* a call of Equal or Less: operands and outcome
    cfg, calls, prev, found,   \* the engine's filter registry and its history
    chain, pos, val, err, trace, \* the evaluation of a filter chain
    opts, writing,             \* the engine's other settings; a map write under way
    rpc, rsnap, rseen,         \* the renders that share the engine
    third, lts                 \* a third operand of Less and three outcomes

cmpVars == <<fn, a, b, res, panicked>>
engVars == <<cfg, calls, prev, found>>
evalVars == <<chain, pos, val, err, trace>>
rndVars == <<opts, writing, rpc, rsnap, rseen>>
ordVars == <<third, lts>>
vars == <<fn, a, b, res, panicked, cfg, calls, prev, found,
          chain, pos, val, err, trace,
          opts, writing, rpc, rsnap, rseen, third, lts>>

(***************************************************************************)
(* Bounds of the model.                                                    *)
(***************************************************************************)
\* longest array/slice among the operands of Equal and Less
MaxLen == 2
\* number of RegisterFilter calls made on an engine after NewEngine
MaxRegs == 3
\* number of filters in a filter chain
MaxChain == 2
\* number of matches given to setContains and setContainsAll
MaxMatches == 2
\* number of members of a set given to setContains and setContainsAll
MaxSet == 3

(***************************************************************************)
(* Go values as they reach Equal and Less (interface{} after ToLiquid).    *)
(* Every value is a record of the same shape:                              *)
(*   t    the dynamic Go type                                              *)
(*   big, n, d   a number big * 2^53 + n / d  (d >= 1, n/d in lowest       *)
(*        terms); 2^53 is kept symbolic, so the int64 -> float64           *)
(*        conversion is modelled at the real width.  For a bool n is 0/1,  *)
(*        for a time.Time n is the instant (in half days) and d the        *)
(*        location, for a date.Date n is the integer the date is stored    *)
(*        as (0 is the zero Date), for a phone n identifies the number,    *)
(*        for a pointer d is the pointee type and n the address (0: nil),  *)
(*        for a map n is the number of entries                             *)
(*   s    the bytes of a string                                            *)
(*   e    the elements of an array or slice                                *)
(***************************************************************************)
Mk(t, big, n, d, s, e) == [t |-> t, big |-> big, n |-> n, d |-> d, s |-> s, e |-> e]

Nil == Mk("nil", 0, 0, 1, <<>>, <<>>)
BoolV(x) == Mk("bool", 0, IF x THEN 1 ELSE 0, 1, <<>>, <<>>)
IntV(t, big, n) == Mk(t, big, n, 1, <<>>, <<>>)
FloatV(t, big, n, d) == Mk(t, big, n, d, <<>>, <<>>)
StrV(s) == Mk("string", 0, 0, 1, s, <<>>)
SeqV(t, e) == Mk(t, 0, 0, 1, <<>>, e)
MapV(n) == Mk("map", 0, n, 1, <<>>, <<>>)
TimeV(inst, loc) == Mk("time", 0, inst, loc, <<>>, <<>>)
DateV(n) == Mk("date", 0, n, 1, <<>>, <<>>)
PhoneV(id) == Mk("phone", 0, id, 1, <<>>, <<>>)
PtrV(ty, addr) == Mk("ptr", 0, addr, ty, <<>>, <<>>)

\* the byte strings used as operands
StrEmpty == <<>>
StrA == <<97>>
StrAB == <<97, 98>>
StrB == <<98>>
\* "2015-07-17"
StrDay1 == <<50, 48, 49, 53, 45, 48, 55, 45, 49, 55>>
\* "2015-07-17 12:00"
StrDay1Noon == <<50, 48, 49, 53, 45, 48, 55, 45, 49, 55, 32, 49, 50, 58, 48, 48>>
\* "2015-07-18"
StrDay2 == <<50, 48, 49, 53, 45, 48, 55, 45, 49, 56>>
\* "+1 555"
StrPhone1 == <<43, 49, 32, 53, 53, 53>>

Strings == {StrEmpty, StrA, StrAB, StrB, StrDay1, StrDay1Noon, StrDay2, StrPhone1}

IntTypes == {"int", "int8", "int64"}
FloatTypes == {"float32", "float64"}

Ints ==
    {IntV("int", 0, n) : n \in -1..2}
      \cup {IntV("int64", 1, n) : n \in 0..3}
      \cup {IntV("int8", 0, n) : n \in {-1, 1}}

Floats ==
    {FloatV("float64", 0, n, 1) : n \in -1..2}
      \cup {FloatV("float64", 0, 1, 2), FloatV("float64", 1, 0, 1),
            FloatV("float64", 1, 2, 1), FloatV("float64", 1, 4, 1)}
      \cup {FloatV("float32", 0, 1, 1), FloatV("float32", 0, 1, 2)}

\* instants in half days: 2 is 2015-07-17 00:00 UTC, 3 is noon, 4 the next day
Times == {TimeV(2, 0), TimeV(2, 1), TimeV(3, 0), TimeV(4, 0)}
Dates == {DateV(0), DateV(1), DateV(2)}
Phones == {PhoneV(1), PhoneV(2)}
Maps == {MapV(0), MapV(1)}
Ptrs == {PtrV(1, 0), PtrV(2, 0), PtrV(1, 1), PtrV(1, 2)}

Scalars ==
    {Nil, BoolV(TRUE), BoolV(FALSE)} \cup Ints \cup Floats
      \cup {StrV(s) : s \in Strings} \cup Times \cup Dates \cup Phones
      \cup Maps \cup Ptrs

\* the elements arrays and slices are built from
Elems ==
    {Nil, IntV("int", 0, 1), FloatV("float64", 0, 1, 1), StrV(StrDay1),
     TimeV(2, 0)}

SeqsUpTo(S, k) == UNION {[1..m -> S] : m \in 0..k}

Arrays ==
    {SeqV("slice", e) : e \in SeqsUpTo(Elems, MaxLen)}
      \cup {SeqV("array", e) : e \in SeqsUpTo({Nil, IntV("int", 0, 1)}, MaxLen)}
      \cup {SeqV("slice", <<SeqV("slice", <<IntV("int", 0, 1)>>)>>),
            SeqV("slice", <<SeqV("array", <<FloatV("float64", 0, 1, 1)>>)>>),
            SeqV("slice", <<SeqV("slice", <<>>)>>),
            SeqV("slice", <<MapV(0)>>),
            SeqV("slice", <<IntV("int", 0, 1), MapV(0)>>),
            SeqV("slice", <<IntV("int", 0, 2), MapV(0)>>)}

Values == Scalars \cup Arrays

(***************************************************************************)
(* reflect.Kind of a value.  date.Date is an integer type ("date.Date is   *)
(* of kind int", compare.go:132); time.Time and phone.International are    *)
(* structs.                                                                *)
(***************************************************************************)
Kind(v) ==
    CASE v.t = "bool" -> "Bool"
      [] v.t = "int" -> "Int"
      [] v.t = "int8" -> "Int8"
      [] v.t = "int64" -> "Int64"
      [] v.t = "date" -> "Int"
      [] v.t = "float32" -> "Float32"
      [] v.t = "float64" -> "Float64"
      [] v.t = "string" -> "String"
      [] v.t = "slice" -> "Slice"
      [] v.t = "mapslice" -> "Slice"
      [] v.t = "array" -> "Array"
      [] v.t = "map" -> "Map"
      [] v.t = "time" -> "Struct"
      [] v.t = "phone" -> "Struct"
      [] v.t = "ptr" -> "Ptr"
      [] OTHER -> "Invalid"

isIntKind(k) == k \in {"Int", "Int8", "Int16", "Int32", "Int64"}

isFloatKind(k) == k \in {"Float32", "Float64"}

joinKind(ka, kb) ==
    IF ka = kb THEN ka
    ELSE IF ka \in {"Array", "Slice"} /\ kb \in {"Array", "Slice"} THEN "Slice"
    ELSE IF isIntKind(ka) /\ isIntKind(kb) THEN "Int64"
    ELSE IF isIntKind(ka) /\ isFloatKind(kb) THEN "Float64"
    ELSE IF isFloatKind(ka) /\ (isIntKind(kb) \/ isFloatKind(kb)) THEN "Float64"
    ELSE "Invalid"

\* ToLiquid is the identity on every value that is no drop; the operands
\* modelled here are plain values.
ToLiquid(v) == v

(***************************************************************************)
(* Numbers.  A number is the pair (big, n/d) standing for big*2^53 + n/d.  *)
(***************************************************************************)
Num(big, n, d) == [big |-> big, n |-> n, d |-> d]

\* the exact value a numeric operand denotes
NumOf(v) == Num(v.big, v.n, v.d)

NumEq(x, y) == x.big = y.big /\ x.n * y.d = y.n * x.d

NumLess(x, y) == x.big < y.big \/ (x.big = y.big /\ x.n * y.d < y.n * x.d)

Zero == Num(0, 0, 1)

\* reflect.Value.Convert(int64Type).Int() of an operand of an integer kind
ConvertInt64(v) == Num(v.big, v.n, 1)

\* float64(i) for an int64 i: exact up to 2^53, and above it rounded to the
\* nearest representable float64 (a multiple of 2 below 2^54), ties to the
\* even mantissa (a multiple of 4)
Int64ToFloat64(x) ==
    IF x.big = 1 /\ x.n > 0 /\ x.n % 2 = 1
    THEN Num(1, IF x.n % 4 = 1 THEN x.n - 1 ELSE x.n + 1, 1)
    ELSE x

\* reflect.Value.Convert(float64Type).Float() of an operand of a numeric kind
ConvertFloat64(v) ==
    IF isIntKind(Kind(v)) THEN Int64ToFloat64(Num(v.big, v.n, 1)) ELSE NumOf(v)

(***************************************************************************)
(* Strings compare bytewise (Go's < on strings).                           *)
(***************************************************************************)
RECURSIVE StrLess(_, _)
StrLess(s1, s2) ==
    IF s2 = <<>> THEN FALSE
    ELSE IF s1 = <<>> THEN TRUE
    ELSE IF Head(s1) # Head(s2) THEN Head(s1) < Head(s2)
    ELSE StrLess(Tail(s1), Tail(s2))

(***************************************************************************)
(* Dates and times.                                                        *)
(***************************************************************************)
\* values.ParseDate: the instant a string denotes, or an error
ParseDate(s) ==
    CASE s = StrDay1 -> [ok |-> TRUE, inst |-> 2]
      [] s = StrDay1Noon -> [ok |-> TRUE, inst |-> 3]
      [] s = StrDay2 -> [ok |-> TRUE, inst |-> 4]
      [] OTHER -> [ok |-> FALSE, inst |-> 0]

\* time.Time.Equal: the same instant, whatever the location
TimeEqual(t1, t2) == t1 = t2

\* time.Time.Before
TimeBefore(t1, t2) == t1 < t2

\* date.NewFromUTCTime: the calendar day of an instant, as the integer of a Date
NewFromUTCTime(inst) == inst \div 2

\* phone.International.String()
PhoneString(v) == IF v.n = 1 THEN StrPhone1 ELSE <<43, 50>>

\* phone.International.Equal
PhoneEqual(p, q) == p.n = q.n

(***************************************************************************)
(* Equal (compare.go:16-73).                                               *)
(***************************************************************************)
\* a == b on two interface values: the same dynamic type and the same value
InterfaceEqual(x, y) == x = y

\* a nil operand taken for an empty string
EqualNil_Empty(x, y) ==
    (x = Nil \/ x = StrV(<<>>)) /\ (y = Nil \/ y = StrV(<<>>))

\* lines 19-21: one of the operands is nil
EqualNil(x, y) == InterfaceEqual(x, y)

\* a time.Time equal to a string of the same calendar day
EqualTimeString_SameDay(x, y) ==
    LET db == ParseDate(y.s)
    IN  IF db.ok THEN x.n \div 2 = db.inst \div 2 ELSE FALSE

\* lines 27-33: a time.Time against a string
EqualTimeString(x, y) ==
    LET db == ParseDate(y.s)
    IN  IF db.ok THEN TimeEqual(x.n, db.inst) ELSE FALSE

\* only a longer left operand taken for a difference in length
LenDiffers_Longer(x, y) == Len(x.e) > Len(y.e)

\* lines 48-50: arrays of different length
LenDiffers(x, y) == Len(x.e) # Len(y.e)

RECURSIVE Equal(_, _)
Equal(x, y) ==
    LET ra == ToLiquid(x)
        rb == ToLiquid(y)
        k == joinKind(Kind(ra), Kind(rb))
    IN  IF ra = Nil \/ rb = Nil THEN EqualNil(ra, rb)
        ELSE IF ra.t = "time" /\ Kind(rb) = "String" THEN EqualTimeString(ra, rb)
        ELSE IF ra.t = "time" /\ rb.t = "time" THEN TimeEqual(ra.n, rb.n)
        ELSE IF ra.t = "phone" /\ Kind(rb) = "String" THEN PhoneString(ra) = rb.s
        ELSE IF ra.t = "phone" /\ rb.t = "phone" THEN PhoneEqual(ra, rb)
        ELSE IF k \in {"Array", "Slice"}
             THEN IF LenDiffers(ra, rb) THEN FALSE
                  ELSE \A i \in 1..Len(ra.e) : Equal(ra.e[i], rb.e[i])
        ELSE IF k = "Bool" THEN ra.n = rb.n
        ELSE IF isIntKind(k) THEN NumEq(ConvertInt64(ra), ConvertInt64(rb))
        ELSE IF isFloatKind(k) THEN NumEq(ConvertFloat64(ra), ConvertFloat64(rb))
        ELSE IF k = "String" THEN ra.s = rb.s
        ELSE IF k = "Ptr"
             THEN IF Kind(rb) = "Ptr" /\ (ra.n = 0 \/ rb.n = 0)
                  THEN (ra.n = 0) = (rb.n = 0)
                  ELSE InterfaceEqual(ra, rb)
        ELSE InterfaceEqual(ra, rb)

\* Whether Equal(x, y) ends in a run-time panic instead of a result: the
\* a == b of lines 69-71 on two values of the same uncomparable type (maps).
RECURSIVE EqualPanics(_, _)
EqualPanics(x, y) ==
    LET ra == ToLiquid(x)
        rb == ToLiquid(y)
        k == joinKind(Kind(ra), Kind(rb))
    IN  IF ra = Nil \/ rb = Nil THEN FALSE
        ELSE IF ra.t = "time" /\ (Kind(rb) = "String" \/ rb.t = "time") THEN FALSE
        ELSE IF ra.t = "phone" /\ (Kind(rb) = "String" \/ rb.t = "phone") THEN FALSE
        ELSE IF k \in {"Array", "Slice"}
             THEN /\ ~LenDiffers(ra, rb)
                  /\ \E i \in 1..Len(ra.e) :
                        /\ EqualPanics(ra.e[i], rb.e[i])
                        /\ \A j \in 1..(i - 1) : Equal(ra.e[j], rb.e[j])
        ELSE k = "Map"

(***************************************************************************)
(* Less (compare.go:75-164).                                               *)
(***************************************************************************)
\* lines 80-90: nil against b
LessNilLeft(y) ==
    IF Kind(y) = "String" THEN StrLess(<<>>, y.s)
    ELSE IF isIntKind(Kind(y)) THEN NumLess(Zero, ConvertInt64(y))
    ELSE IF isFloatKind(Kind(y)) THEN NumLess(Zero, ConvertFloat64(y))
    ELSE FALSE

\* lines 91-101: a against nil
LessNilRight(x) ==
    IF Kind(x) = "String" THEN StrLess(x.s, <<>>)
    ELSE IF isIntKind(Kind(x)) THEN NumLess(ConvertInt64(x), Zero)
    ELSE IF isFloatKind(Kind(x)) THEN NumLess(ConvertFloat64(x), Zero)
    ELSE FALSE

NoReturn == [ret |-> FALSE, val |-> FALSE]
Return(v) == [ret |-> TRUE, val |-> v]

\* the time comparison without the branch for a string on the left
LessTime_LeftOnly(ra, rb) ==
    IF ra.t = "time"
    THEN IF Kind(rb) = "String"
         THEN LET db == ParseDate(rb.s)
              IN  IF db.ok THEN Return(TimeBefore(ra.n, db.inst)) ELSE NoReturn
         ELSE IF rb.t = "time" THEN Return(TimeBefore(ra.n, rb.n))
         ELSE NoReturn
    ELSE NoReturn

\* lines 105-131: the time comparison; ret tells whether it returned
LessTime(ra, rb) ==
    IF Kind(ra) = "Struct"
    THEN IF ra.t = "time"
         THEN IF Kind(rb) = "String"
              THEN LET db == ParseDate(rb.s)
                   IN  IF db.ok THEN Return(TimeBefore(ra.n, db.inst)) ELSE NoReturn
              ELSE IF rb.t = "time" THEN Return(TimeBefore(ra.n, rb.n))
              ELSE NoReturn
         ELSE NoReturn
    ELSE IF Kind(rb) = "Struct"
    THEN IF rb.t = "time"
         THEN IF Kind(ra) = "String"
              THEN LET da == ParseDate(ra.s)
                   IN  IF da.ok THEN Return(TimeBefore(da.inst, rb.n)) ELSE NoReturn
              ELSE NoReturn
         ELSE NoReturn
    ELSE NoReturn

\* lines 132-150: a date.Date against a string; ret tells whether it returned
LessDate(ra, rb) ==
    IF ra.t = "date"
    THEN IF Kind(rb) = "String"
         THEN LET db == ParseDate(rb.s)
              IN  IF db.ok THEN Return(ra.n < NewFromUTCTime(db.inst)) ELSE NoReturn
         ELSE NoReturn
    ELSE IF rb.t = "date"
    THEN IF Kind(ra) = "String"
         THEN LET da == ParseDate(ra.s)
              IN  IF da.ok THEN Return(NewFromUTCTime(da.inst) < rb.n) ELSE NoReturn
         ELSE NoReturn
    ELSE NoReturn

\* a comparison by joined kind that is true of equal operands too
LessKind_OrEqual(ra, rb) ==
    LET k == joinKind(Kind(ra), Kind(rb))
    IN  IF k = "Bool" THEN ra.n <= rb.n
        ELSE IF isIntKind(k) THEN ~NumLess(ConvertInt64(rb), ConvertInt64(ra))
        ELSE IF isFloatKind(k) THEN ~NumLess(ConvertFloat64(rb), ConvertFloat64(ra))
        ELSE IF k = "String" THEN ~StrLess(rb.s, ra.s)
        ELSE FALSE

\* lines 152-163: the comparison by joined kind
LessKind(ra, rb) ==
    LET k == joinKind(Kind(ra), Kind(rb))
    IN  IF k = "Bool" THEN ra.n = 0 /\ rb.n = 1
        ELSE IF isIntKind(k) THEN NumLess(ConvertInt64(ra), ConvertInt64(rb))
        ELSE IF isFloatKind(k) THEN NumLess(ConvertFloat64(ra), ConvertFloat64(rb))
        ELSE IF k = "String" THEN StrLess(ra.s, rb.s)
        ELSE FALSE

Less(x, y) ==
    LET ra == ToLiquid(x)
        rb == ToLiquid(y)
    IN  IF ra = Nil /\ rb = Nil THEN FALSE
        ELSE IF ra = Nil THEN LessNilLeft(rb)
        ELSE IF rb = Nil THEN LessNilRight(ra)
        ELSE IF LessTime(ra, rb).ret THEN LessTime(ra, rb).val
        ELSE IF LessDate(ra, rb).ret THEN LessDate(ra, rb).val
        ELSE LessKind(ra, rb)

(***************************************************************************)
(* The filter registry of an engine (engine.go).  The registry maps a      *)
(* filter name to a callable; a callable is identified by where it comes   *)
(* from.                                                                   *)
(***************************************************************************)
\* render.NewConfig: no filter registered
NewConfig == [n \in {} |-> ""]

\* Config.AddFilter: c.filters[name] = fn
AddFilter(c, name, f) ==
    [n \in (DOMAIN c) \cup {name} |-> IF n = name THEN f ELSE c[n]]

\* the names of the standard filter library
StandardFilters ==
    {"default", "map", "compact", "join", "split", "first", "last", "reverse",
     "sort", "sort_natural", "uniq", "size", "replace", "replace_first",
     "remove", "remove_first", "append", "prepend", "capitalize", "downcase",
     "upcase", "escape", "escape_once", "strip", "lstrip", "rstrip",
     "strip_html", "strip_newlines", "newline_to_br", "slice", "truncate",
     "truncatewords", "url_encode", "url_decode", "to_number", "abs", "ceil",
     "floor", "round", "plus", "minus", "times", "divided_by", "modulo",
     "at_least", "at_most", "md5", "sha1", "sha256", "hmac", "hmac_sha1",
     "hmac_sha256", "date", "inspect", "type"}

\* filters.AddStandardFilters: every standard filter added to the configuration
AddStandardFilters(c) ==
    [n \in (DOMAIN c) \cup StandardFilters |->
        IF n \in StandardFilters THEN "std" ELSE c[n]]

\* a registration that keeps the callable already registered under the name
RegisterFilter_KeepFirst(c, name, f) ==
    IF name \in DOMAIN c THEN c ELSE AddFilter(c, name, f)

\* Engine.RegisterFilter
RegisterFilter(c, name, f) == AddFilter(c, name, f)

\* the filters NewEngine registers, in the order of their registration
EngineFilters ==
    <<"hideCountryCodeAndDefault", "timeInTimezone", "rawPhone",
      "dateTimeFormatOrDefault", "dateFormatOrDefault", "decimal",
      "decimalWithDelimiter", "numberWithDelimiter", "booleanFormat",
      "setContains", "setContainsAll", "trackURL", "startsWith", "endsWith">>

RECURSIVE RegisterAll(_, _)
RegisterAll(c, names) ==
    IF names = <<>> THEN c
    ELSE RegisterAll(RegisterFilter(c, Head(names), "engine"), Tail(names))

NewEngine == RegisterAll(AddStandardFilters(NewConfig), EngineFilters)

\* the lookup of a filter by name: the callable, or "" when there is none
FindFilter(c, name) == IF name \in DOMAIN c THEN c[name] ELSE ""

\* the names and callables an application registers
RegNames == {"default", "trackURL", "shout", "upcase"}
RegFns == {"std", "user1", "user2"}

NoLookup == [name |-> "", fn |-> ""]

\* the renders that share one engine
Renders == {1, 2}

\* Config.Delims and Config.AllowedTags as NewEngine leaves them
DefaultOpts == [delims |-> "default", allowed |-> "unset"]

NoWrite == [name |-> "", fn |-> ""]

\* what a render holds when it starts: the engine's configuration
Snapshot(f, o) == [filters |-> f, opts |-> o]

\* no render started, no write to the configuration under way
RndIdle ==
    /\ opts = DefaultOpts
    /\ writing = NoWrite
    /\ rpc = [r \in Renders |-> "idle"]
    /\ rsnap = [r \in Renders |-> Snapshot(NewEngine, DefaultOpts)]
    /\ rseen = [r \in Renders |-> <<>>]

\* no triple of operands under comparison
OrdIdle == third = Nil /\ lts = <<FALSE, FALSE, FALSE>>

\* no chain under evaluation
EvalIdle ==
    /\ chain = <<>>
    /\ pos = 1
    /\ val = Nil
    /\ err = "none"
    /\ trace = <<Nil>>

\* the engine as NewEngine returns it
EngStart ==
    /\ cfg = NewEngine
    /\ calls = <<>>
    /\ prev = NewEngine
    /\ found = NoLookup

\* engine.RegisterFilter(name, f)
CallRegisterFilter ==
    /\ Len(calls) < MaxRegs
    /\ \E name \in RegNames, f \in RegFns :
          /\ cfg' = RegisterFilter(cfg, name, f)
          /\ calls' = Append(calls, [name |-> name, fn |-> f])
          /\ prev' = cfg
    /\ found' = NoLookup
    /\ UNCHANGED <<cmpVars, evalVars, rndVars, ordVars>>

\* a filter looked up by name, as the evaluation of a filter chain does
CallFindFilter ==
    /\ found = NoLookup
    /\ \E name \in RegNames \cup {"date", "rawPhone", "nosuch"} :
          found' = [name |-> name, fn |-> FindFilter(cfg, name)]
    /\ UNCHANGED <<cfg, calls, prev>>
    /\ UNCHANGED <<cmpVars, evalVars, rndVars, ordVars>>

EngNext == CallRegisterFilter \/ CallFindFilter

\* no comparison under way
CmpIdle == fn = "none" /\ a = Nil /\ b = Nil /\ res = FALSE /\ panicked = FALSE

EngInit == EngStart /\ CmpIdle /\ EvalIdle /\ RndIdle /\ OrdIdle

SpecEngine == EngInit /\ [][EngNext]_vars

(***************************************************************************)
(* Renders sharing one engine.  ParseTemplate hands the template a pointer *)
(* to the engine's own configuration (&e.cfg), and RegisterFilter, Delims  *)
(* and SetAllowedTags write that configuration in place; none of them      *)
(* takes a lock.  Each render and each call on the engine is a goroutine   *)
(* of its own.  The write of the filter map takes two steps, so that a     *)
(* lookup can fall between them: Go leaves such a lookup undefined (it     *)
(* sees the map before the write, or after it, or the runtime stops the    *)
(* program with "concurrent map read and map write").                      *)
(***************************************************************************)
\* filter lookups one render makes
MaxReads == 2
\* calls of RegisterFilter made while the renders run
MaxWrites == 2

\* the names the renders look up; the application overrides "default"
RndNames == {"default", "shout"}

Crashed == \E r \in Renders : rpc[r] = "crashed"

\* engine.ParseTemplate followed by the start of Template.Render
StartRender(r) ==
    /\ rpc[r] = "idle"
    /\ rpc' = [rpc EXCEPT ![r] = "running"]
    /\ rsnap' = [rsnap EXCEPT ![r] = Snapshot(cfg, opts)]
    /\ UNCHANGED <<opts, writing, rseen>>
    /\ UNCHANGED <<cmpVars, engVars, evalVars, ordVars>>

\* a running render looks a filter up while no write is under way
RenderFindFilter(r) ==
    /\ rpc[r] = "running"
    /\ Len(rseen[r]) < MaxReads
    /\ writing = NoWrite
    /\ \E name \in RndNames :
          rseen' = [rseen EXCEPT
                      ![r] = Append(@, [name |-> name, fn |-> FindFilter(cfg, name)])]
    /\ UNCHANGED <<opts, writing, rpc, rsnap>>
    /\ UNCHANGED <<cmpVars, engVars, evalVars, ordVars>>

\* the outcomes of a lookup that races with the write of the filter map
RacingLookups(name) ==
    {FindFilter(cfg, name),
     FindFilter(RegisterFilter(cfg, writing.name, writing.fn), name),
     "fatal"}

\* a running render looks a filter up while RegisterFilter writes the map
RenderFindFilterRacing(r) ==
    /\ rpc[r] = "running"
    /\ Len(rseen[r]) < MaxReads
    /\ writing # NoWrite
    /\ \E name \in RndNames : \E f \in RacingLookups(name) :
          IF f = "fatal"
          THEN /\ rpc' = [q \in Renders |-> "crashed"]
               /\ UNCHANGED rseen
          ELSE /\ rseen' = [rseen EXCEPT
                              ![r] = Append(@, [name |-> name, fn |-> f])]
               /\ UNCHANGED rpc
    /\ UNCHANGED <<opts, writing, rsnap>>
    /\ UNCHANGED <<cmpVars, engVars, evalVars, ordVars>>

\* Template.Render returns
FinishRender(r) ==
    /\ rpc[r] = "running"
    /\ rpc' = [rpc EXCEPT ![r] = "done"]
    /\ UNCHANGED <<opts, writing, rsnap, rseen>>
    /\ UNCHANGED <<cmpVars, engVars, evalVars, ordVars>>

\* engine.RegisterFilter(name, f) begins to write the filter map
BeginRegisterFilter ==
    /\ ~Crashed
    /\ writing = NoWrite
    /\ Len(calls) < MaxWrites
    /\ writing' = [name |-> "default", fn |-> "user1"]
    /\ UNCHANGED <<opts, rpc, rsnap, rseen>>
    /\ UNCHANGED <<cmpVars, engVars, evalVars, ordVars>>

\* the write of the filter map completes and RegisterFilter returns
EndRegisterFilter ==
    /\ ~Crashed
    /\ writing # NoWrite
    /\ cfg' = RegisterFilter(cfg, writing.name, writing.fn)
    /\ calls' = Append(calls, writing)
    /\ prev' = cfg
    /\ writing' = NoWrite
    /\ UNCHANGED <<found, opts, rpc, rsnap, rseen>>
    /\ UNCHANGED <<cmpVars, evalVars, ordVars>>

\* engine.Delims(...)
CallDelims ==
    /\ ~Crashed
    /\ opts.delims = "default"
    /\ opts' = [opts EXCEPT !.delims = "custom"]
    /\ UNCHANGED <<writing, rpc, rsnap, rseen>>
    /\ UNCHANGED <<cmpVars, engVars, evalVars, ordVars>>

\* engine.SetAllowedTags(allowedTags)
CallSetAllowedTags ==
    /\ ~Crashed
    /\ opts.allowed = "unset"
    /\ opts' = [opts EXCEPT !.allowed = "set"]
    /\ UNCHANGED <<writing, rpc, rsnap, rseen>>
    /\ UNCHANGED <<cmpVars, engVars, evalVars, ordVars>>

RndInit == EngStart /\ CmpIdle /\ EvalIdle /\ RndIdle /\ OrdIdle

RndNext ==
    \/ \E r \in Renders : StartRender(r)
    \/ \E r \in Renders : RenderFindFilter(r)
    \/ \E r \in Renders : RenderFindFilterRacing(r)
    \/ \E r \in Renders : FinishRender(r)
    \/ BeginRegisterFilter
    \/ EndRegisterFilter
    \/ CallDelims
    \/ CallSetAllowedTags

SpecRender == RndInit /\ [][RndNext]_vars

(***************************************************************************)
(* The evaluation of a filter chain (expressions.EvaluateString, as        *)
(* TestFilters drives it): the head value is threaded through the filters  *)
(* from left to right.                                                     *)
(***************************************************************************)
RECURSIVE GCD(_, _)
GCD(x, y) == IF y = 0 THEN x ELSE GCD(y, x % y)

Abs(x) == IF x < 0 THEN -x ELSE x

\* the fraction n/d (d # 0) in lowest terms with a positive denominator
Fraction(n, d) ==
    LET g == GCD(Abs(n), Abs(d))
        sg == IF d < 0 THEN -1 ELSE 1
    IN  Num(0, sg * (n \div g), sg * (d \div g))

IsDigits(s) == s # <<>> /\ \A i \in 1..Len(s) : s[i] \in 48..57

RECURSIVE DigitsValue(_)
DigitsValue(s) ==
    IF s = <<>> THEN 0
    ELSE 10 * DigitsValue(SubSeq(s, 1, Len(s) - 1)) + (s[Len(s)] - 48)

RECURSIVE Pow10(_)
Pow10(k) == IF k = 0 THEN 1 ELSE 10 * Pow10(k - 1)

NotANumber == [ok |-> FALSE, float |-> FALSE, num |-> Zero]

\* a string as a number: optional sign, digits, optional fractional part
ParseNumber(s) ==
    LET signed == s # <<>> /\ s[1] \in {43, 45}
        sg == IF signed /\ s[1] = 45 THEN -1 ELSE 1
        body == IF signed THEN Tail(s) ELSE s
        dots == {i \in 1..Len(body) : body[i] = 46}
    IN  IF dots = {}
        THEN IF IsDigits(body)
             THEN [ok |-> TRUE, float |-> FALSE, num |-> Num(0, sg * DigitsValue(body), 1)]
             ELSE NotANumber
        ELSE LET i == CHOOSE j \in dots : \A k \in dots : j <= k
                 ip == SubSeq(body, 1, i - 1)
                 fp == SubSeq(body, i + 1, Len(body))
             IN  IF IsDigits(ip) /\ IsDigits(fp)
                 THEN [ok |-> TRUE, float |-> TRUE,
                       num |-> Fraction(sg * (DigitsValue(ip) * Pow10(Len(fp))
                                                + DigitsValue(fp)),
                                        Pow10(Len(fp)))]
                 ELSE NotANumber

\* a value viewed as a number: an Int, a Float, or a string that parses as one
ViewNumber(v) ==
    IF v.t \in {"int", "int8", "int64"}
    THEN [ok |-> TRUE, float |-> FALSE, num |-> Num(v.big, v.n, v.d)]
    ELSE IF v.t \in {"float32", "float64"}
    THEN [ok |-> TRUE, float |-> TRUE, num |-> Num(v.big, v.n, v.d)]
    ELSE IF v.t = "string" THEN ParseNumber(v.s)
    ELSE NotANumber

\* the value of a numeric result
NumberV(float, x) ==
    IF float THEN FloatV("float64", x.big, x.n, x.d) ELSE IntV("int", x.big, x.n)

\* integer division truncated towards zero
TruncDiv(x, y) ==
    LET q == Abs(x) \div Abs(y)
    IN  IF (x < 0) = (y < 0) THEN q ELSE -q

\* a value is empty: nil, false, "", an empty array or an empty map (a
\* map[string]interface{} or the ordered yaml.MapSlice)
IsEmpty(v) ==
    \/ v = Nil
    \/ v = BoolV(FALSE)
    \/ v = StrV(<<>>)
    \/ (v.t \in {"slice", "array", "mapslice"} /\ v.e = <<>>)
    \/ v = MapV(0)

\* "Fri, Jul 17, 15"
StrFri17 == <<70, 114, 105, 44, 32, 74, 117, 108, 32, 49, 55, 44, 32, 49, 53>>
\* "Sat, Jul 18, 15"
StrSat18 == <<83, 97, 116, 44, 32, 74, 117, 108, 32, 49, 56, 44, 32, 49, 53>>
\* "2015"
Str2015 == <<50, 48, 49, 53>>
\* "%Y"
StrFmtY == <<37, 89>>
\* "s"
StrS == <<115>>
\* "7"
Str7 == <<55>>

\* the instant a Time, a Date or a parseable string denotes
DateInput(v) ==
    IF v.t = "time" THEN [ok |-> TRUE, inst |-> v.n]
    ELSE IF v.t = "date" /\ v.n # 0 THEN [ok |-> TRUE, inst |-> 2 * v.n]
    ELSE IF v.t = "string" THEN ParseDate(v.s)
    ELSE [ok |-> FALSE, inst |-> 0]

\* a default that replaces only what is false in a condition
FilterDefault_Falsy(x, d) == IF x \in {Nil, BoolV(FALSE)} THEN d ELSE x

\* x | default: d
FilterDefault(x, d) == IF IsEmpty(x) THEN d ELSE x

\* a division that gives the Float quotient whatever the operands are
FilterDividedBy_AlwaysFloat(x, y) ==
    LET nx == ViewNumber(x)
        ny == ViewNumber(y)
    IN  IF ~nx.ok \/ ~ny.ok THEN Nil
        ELSE IF ny.num.n = 0 THEN Nil
        ELSE NumberV(TRUE, Fraction(nx.num.n * ny.num.d, nx.num.d * ny.num.n))

\* x | divided_by: y
FilterDividedBy(x, y) ==
    LET nx == ViewNumber(x)
        ny == ViewNumber(y)
    IN  IF ~nx.ok \/ ~ny.ok THEN Nil
        ELSE IF ny.num.n = 0 THEN Nil
        ELSE IF ~nx.float /\ ~ny.float
             THEN NumberV(FALSE, Num(0, TruncDiv(nx.num.n, ny.num.n), 1))
        ELSE NumberV(TRUE, Fraction(nx.num.n * ny.num.d, nx.num.d * ny.num.n))

\* x | plus: y
FilterPlus(x, y) ==
    LET nx == ViewNumber(x)
        ny == ViewNumber(y)
    IN  IF ~nx.ok \/ ~ny.ok THEN Nil
        ELSE NumberV(nx.float \/ ny.float,
                     Fraction(nx.num.n * ny.num.d + ny.num.n * nx.num.d,
                              nx.num.d * ny.num.d))

\* an extreme that keeps the kind of the operand it returns
FilterExtreme_KeepKind(x, y, most) ==
    LET nx == ViewNumber(x)
        ny == ViewNumber(y)
    IN  IF x = StrV(<<>>) \/ y = StrV(<<>>) THEN StrV(<<>>)
        ELSE IF ~nx.ok \/ ~ny.ok THEN Nil
        ELSE IF NumLess(nx.num, ny.num) = most
        THEN NumberV(nx.float, nx.num)
        ELSE NumberV(ny.float, ny.num)

\* the smaller (most) or the larger of the numbers x and y are viewed as;
\* an operand that is the empty string is returned as it is
FilterExtreme(x, y, most) ==
    LET nx == ViewNumber(x)
        ny == ViewNumber(y)
    IN  IF x = StrV(<<>>) \/ y = StrV(<<>>) THEN StrV(<<>>)
        ELSE IF ~nx.ok \/ ~ny.ok THEN Nil
        ELSE NumberV(nx.float \/ ny.float,
                     IF NumLess(nx.num, ny.num) = most THEN nx.num ELSE ny.num)

\* x | at_least: y
FilterAtLeast(x, y) == FilterExtreme(x, y, FALSE)

\* x | at_most: y
FilterAtMost(x, y) == FilterExtreme(x, y, TRUE)

\* strings.Split(s, sep) for a separator that is not empty
RECURSIVE Split(_, _)
Split(s, sep) ==
    LET at == {i \in 1..(Len(s) - Len(sep) + 1) : SubSeq(s, i, i + Len(sep) - 1) = sep}
    IN  IF at = {} THEN <<s>>
        ELSE LET i == CHOOSE j \in at : \A k \in at : j <= k
             IN  <<SubSeq(s, 1, i - 1)>> \o Split(SubSeq(s, i + Len(sep), Len(s)), sep)

\* the segments without the empty ones at the end
RECURSIVE DropTrailingEmpty(_)
DropTrailingEmpty(segs) ==
    IF segs # <<>> /\ segs[Len(segs)] = <<>>
    THEN DropTrailingEmpty(SubSeq(segs, 1, Len(segs) - 1))
    ELSE segs

\* tab, newline, vertical tab, form feed, carriage return, space
White == {9, 10, 11, 12, 13, 32}

\* the fields of s: what lies between runs of white space
RECURSIVE Fields(_)
Fields(s) ==
    IF s = <<>> THEN <<>>
    ELSE IF Head(s) \in White THEN Fields(Tail(s))
    ELSE LET w == {i \in 1..Len(s) : s[i] \in White}
             n == IF w = {} THEN Len(s)
                  ELSE (CHOOSE j \in w : \A k \in w : j <= k) - 1
         IN  <<SubSeq(s, 1, n)>> \o Fields(SubSeq(s, n + 1, Len(s)))

\* the array of the strings segs
StrArray(segs) == SeqV("slice", [i \in 1..Len(segs) |-> StrV(segs[i])])

\* a split that keeps the empty segments at the end
FilterSplit_KeepTrailing(x, sep) ==
    IF x.t # "string" \/ sep.t # "string" \/ sep.s = <<>> THEN Nil
    ELSE IF sep.s = <<32>> THEN StrArray(Fields(x.s))
    ELSE StrArray(Split(x.s, sep.s))

\* str | split: sep : the separator " " splits around runs of white space
FilterSplit(x, sep) ==
    IF x.t # "string" \/ sep.t # "string" \/ sep.s = <<>> THEN Nil
    ELSE IF sep.s = <<32>> THEN StrArray(Fields(x.s))
    ELSE StrArray(DropTrailingEmpty(Split(x.s, sep.s)))

\* a map with the one key "weight", holding v
WeightMap(v) == Mk("map", 0, 1, 1, <<>>, <<v>>)

\* what an element is sorted by: itself, or its value at the key
SortKey(elem, args) ==
    IF args = <<>> THEN elem
    ELSE IF elem.t = "map" /\ elem.e # <<>> THEN elem.e[1]
    ELSE Nil

\* the order of a sort: Nil before every other value, Less among the others
SortLess(x, y) ==
    IF x = Nil THEN y # Nil
    ELSE IF y = Nil THEN FALSE
    ELSE Less(x, y)

\* x put into the sorted sequence done, behind the elements it is not less than
RECURSIVE Insert(_, _, _)
Insert(done, x, args) ==
    IF done = <<>> \/ ~SortLess(SortKey(x, args), SortKey(done[Len(done)], args))
    THEN Append(done, x)
    ELSE Append(Insert(SubSeq(done, 1, Len(done) - 1), x, args), done[Len(done)])

\* the stable sort of the sequence e
RECURSIVE InsertionSort(_, _)
InsertionSort(e, args) ==
    IF e = <<>> THEN <<>>
    ELSE Insert(InsertionSort(SubSeq(e, 1, Len(e) - 1), args), e[Len(e)], args)

\* arr | sort  and  arr | sort: key
FilterSort(x, args) ==
    IF x.t \notin {"slice", "array"} THEN Nil
    ELSE SeqV("slice", InsertionSort(x.e, args))

\* a setContains that looks at the first of matches only
SetContains_FirstMatch(s, matches) ==
    IF s = Nil \/ matches = <<>> THEN FALSE
    ELSE IF Kind(s) = "String"
    THEN \E j \in 1..Len(Split(s.s, <<44>>)) :
             StrV(Split(s.s, <<44>>)[j]) = matches[1]
    ELSE IF Kind(s) = "Slice"
    THEN \E i \in 1..Len(s.e) : s.e[i] = matches[1]
    ELSE FALSE

\* the filter setContains of NewEngine: s holds at least one of matches
SetContains(s, matches) ==
    IF s = Nil THEN FALSE
    ELSE IF Kind(s) = "String"
    THEN LET splits == Split(s.s, <<44>>)
         IN  \E i \in 1..Len(matches) : \E j \in 1..Len(splits) :
                 StrV(splits[j]) = matches[i]
    ELSE IF Kind(s) = "Slice"
    THEN \E i \in 1..Len(s.e) : \E j \in 1..Len(matches) : s.e[i] = matches[j]
    ELSE FALSE

\* the filter setContainsAll of NewEngine
SetContainsAll(s, matches) ==
    IF s = Nil THEN FALSE
    ELSE IF Kind(s) = "String"
    THEN LET splits == Split(s.s, <<44>>)
         IN  \A i \in 1..Len(matches) : \E j \in 1..Len(splits) :
                 StrV(splits[j]) = matches[i]
    ELSE IF Kind(s) = "Slice"
    THEN \A i \in 1..Len(s.e) : \E j \in 1..Len(matches) : s.e[i] = matches[j]
    ELSE FALSE

(***************************************************************************)
(* The date and time filters of NewEngine (engine.go:57-145).  Here a      *)
(* time.Time is its instant n, in minutes since 2015-07-16 00:00 UTC, and  *)
(* its location d (a zone); a date.Date is the number of its day, day 1    *)
(* being 2015-07-17 and 0 the zero Date.  Strings are rendered byte by     *)
(* byte, as Time.Format and Sprintf print them.                            *)
(***************************************************************************)
\* the zones: UTC, Australia/Sydney, America/New_York, Asia/Kolkata
Zones == 0..3

\* the offset from UTC, in minutes, in the winter of 2015
ZoneOffset(z) ==
    CASE z = 0 -> 0
      [] z = 1 -> 660
      [] z = 2 -> -300
      [] z = 3 -> 330

ZoneAbbrev(z) ==
    CASE z = 0 -> <<85, 84, 67>>
      [] z = 1 -> <<65, 69, 68, 84>>
      [] z = 2 -> <<69, 83, 84>>
      [] z = 3 -> <<73, 83, 84>>

StrUTC == <<85, 84, 67>>
StrSydney == <<65, 117, 115, 116, 114, 97, 108, 105, 97, 47, 83, 121, 100, 110, 101, 121>>
StrNewYork == <<65, 109, 101, 114, 105, 99, 97, 47, 78, 101, 119, 95, 89, 111, 114, 107>>
StrKolkata == <<65, 115, 105, 97, 47, 75, 111, 108, 107, 97, 116, 97>>
\* "Mars/Olympus", the name of no zone
StrNoZone == <<77, 97, 114, 115, 47, 79, 108, 121, 109, 112, 117, 115>>

\* time.LoadLocation(name): "" and "UTC" are UTC; an unknown name is an error
LoadLocation(name) ==
    CASE name \in {<<>>, StrUTC} -> [ok |-> TRUE, zone |-> 0]
      [] name = StrSydney -> [ok |-> TRUE, zone |-> 1]
      [] name = StrNewYork -> [ok |-> TRUE, zone |-> 2]
      [] name = StrKolkata -> [ok |-> TRUE, zone |-> 3]
      [] OTHER -> [ok |-> FALSE, zone |-> 0]

\* a time.Time of the instant inst in the zone z
ClockV(inst, z) == Mk("time", 0, inst, z, <<>>, <<>>)

\* time.Time{}, the zero Time
ZeroTimeV == Mk("time", -1, 0, 0, <<>>, <<>>)

\* a Time that date.NewFromTime turns into no Date
FarTimeV == Mk("time", 1, 0, 0, <<>>, <<>>)

\* Time.IsZero
TimeIsZero(t) == t.big = -1

\* Time.In(loc): the same instant in another location
In(t, z) == ClockV(t.n, z)

\* the months from July 2015 on: year, month, name, number of days
Months ==
    <<[year |-> 2015, month |-> 7, name |-> <<74, 117, 108>>, days |-> 31],
      [year |-> 2015, month |-> 8, name |-> <<65, 117, 103>>, days |-> 31],
      [year |-> 2015, month |-> 9, name |-> <<83, 101, 112>>, days |-> 30],
      [year |-> 2015, month |-> 10, name |-> <<79, 99, 116>>, days |-> 31],
      [year |-> 2015, month |-> 11, name |-> <<78, 111, 118>>, days |-> 30],
      [year |-> 2015, month |-> 12, name |-> <<68, 101, 99>>, days |-> 31],
      [year |-> 2016, month |-> 1, name |-> <<74, 97, 110>>, days |-> 31]>>

\* the year, month and day of the day numbered n (day 1 is 2015-07-17)
RECURSIVE CivilFrom(_, _)
CivilFrom(i, dayOfMonth) ==
    IF dayOfMonth <= Months[i].days \/ i = Len(Months)
    THEN [year |-> Months[i].year, month |-> Months[i].month,
          name |-> Months[i].name, day |-> dayOfMonth]
    ELSE CivilFrom(i + 1, dayOfMonth - Months[i].days)

Civil(n) == CivilFrom(1, n + 16)

\* the wall clock of a Time in its location
WallClock(t) ==
    LET w == t.n + ZoneOffset(t.d)
        c == Civil(w \div 1440)
    IN  [year |-> c.year, month |-> c.month, name |-> c.name, day |-> c.day,
         hour |-> (w % 1440) \div 60, minute |-> w % 60]

\* a number in decimal, and in two digits
RECURSIVE Decimal(_)
Decimal(n) == IF n < 10 THEN <<48 + n>> ELSE Decimal(n \div 10) \o <<48 + (n % 10)>>

Pad2(n) == IF n < 10 THEN <<48>> \o Decimal(n) ELSE Decimal(n)

\* the hour and minute as the layouts "15:04" and "3:04 PM" print them
ClockText(w, hours) ==
    IF hours = 24 THEN Pad2(w.hour) \o <<58>> \o Pad2(w.minute)
    ELSE Decimal(IF w.hour % 12 = 0 THEN 12 ELSE w.hour % 12)
           \o <<58>> \o Pad2(w.minute) \o <<32>>
           \o (IF w.hour < 12 THEN <<65, 77>> ELSE <<80, 77>>)

\* the date as the layouts "Jan 02 2006", "02 Jan 2006", "2006 Jan 02" and
\* "2006 02 Jan" print it
DateText(w, order) ==
    CASE order = "mdy" -> w.name \o <<32>> \o Pad2(w.day) \o <<32>> \o Decimal(w.year)
      [] order = "dmy" -> Pad2(w.day) \o <<32>> \o w.name \o <<32>> \o Decimal(w.year)
      [] order = "ymd" -> Decimal(w.year) \o <<32>> \o w.name \o <<32>> \o Pad2(w.day)
      [] order = "ydm" -> Decimal(w.year) \o <<32>> \o Pad2(w.day) \o <<32>> \o w.name

\* Time.Format with one of the eight layouts: the wall clock of t in its location
Format(t, order, hours) ==
    DateText(WallClock(t), order) \o <<32>> \o ClockText(WallClock(t), hours)

\* Time.String: "2006-01-02 15:04:05 -0700 MST"
TimeString(t) ==
    LET w == WallClock(t)
        off == ZoneOffset(t.d)
        o == IF off < 0 THEN -off ELSE off
    IN  Decimal(w.year) \o <<45>> \o Pad2(w.month) \o <<45>> \o Pad2(w.day)
          \o <<32>> \o Pad2(w.hour) \o <<58>> \o Pad2(w.minute) \o <<58, 48, 48, 32>>
          \o (IF off < 0 THEN <<45>> ELSE <<43>>) \o Pad2(o \div 60) \o Pad2(o % 60)
          \o <<32>> \o ZoneAbbrev(t.d)

\* the names of the formats
Fmt(order, hours) == [order |-> order, hours |-> hours]

TimeFormats ==
    [x \in {<<109, 100, 121, 49, 50>>, <<109, 100, 121, 50, 52>>, <<100, 109, 121, 49, 50>>, <<100, 109, 121, 50, 52>>, <<121, 109, 100, 49, 50>>, <<121, 109, 100, 50, 52>>, <<121, 100, 109, 49, 50>>, <<121, 100, 109, 50, 52>>} |->
        Fmt(CASE x[1] = 109 -> "mdy"
              [] x[1] = 100 -> "dmy"
              [] x[2] = 109 -> "ymd"
              [] OTHER -> "ydm",
            IF x[4] = 49 THEN 12 ELSE 24)]

\* the filter timeInTimezone: the formats mdy* and dmy* print s.In(tz), the
\* formats ymd* and ydm* print s itself
FilterTimeInTimezone(t, timezone, format) ==
    LET tz == LoadLocation(timezone.s)
    IN  IF ~tz.ok THEN StrV(<<>>)
        ELSE IF format.s \in DOMAIN TimeFormats
        THEN LET f == TimeFormats[format.s]
             IN  IF f.order \in {"mdy", "dmy"}
                 THEN StrV(Format(In(t, tz.zone), f.order, f.hours))
                 ELSE StrV(Format(t, f.order, f.hours))
        ELSE StrV(TimeString(t))

\* the filter dateTimeFormatOrDefault: defaultValue for the zero Time, else
\* s.Format in the location of s, or s.String() for any other format
FilterDateTimeFormatOrDefault(t, format, defaultValue) ==
    IF TimeIsZero(t) THEN defaultValue
    ELSE IF format.s \in DOMAIN TimeFormats
    THEN StrV(Format(t, TimeFormats[format.s].order, TimeFormats[format.s].hours))
    ELSE StrV(TimeString(t))

\* date.NewFromTime(s): the day of the wall clock of s, or an error
NewFromTime(t) ==
    IF t = FarTimeV THEN [ok |-> FALSE, d |-> DateV(0)]
    ELSE [ok |-> TRUE, d |-> DateV((t.n + ZoneOffset(t.d)) \div 1440)]

\* Date.IsZero
DateIsZero(d) == d.n = 0

\* the names of the date formats
DateFormats ==
    [x \in {<<109, 100, 121>>, <<100, 109, 121>>, <<121, 109, 100>>, <<121, 100, 109>>} |->
        CASE x[1] = 109 -> "mdy"
          [] x[1] = 100 -> "dmy"
          [] x[2] = 109 -> "ymd"
          [] OTHER -> "ydm"]

\* Sprintf("%02d/%02d/%d", ...) and Sprintf("%d/%02d/%02d", ...)
DateSprintf(c, order) ==
    CASE order = "mdy" -> Pad2(c.month) \o <<47>> \o Pad2(c.day) \o <<47>> \o Decimal(c.year)
      [] order = "dmy" -> Pad2(c.day) \o <<47>> \o Pad2(c.month) \o <<47>> \o Decimal(c.year)
      [] order = "ymd" -> Decimal(c.year) \o <<47>> \o Pad2(c.month) \o <<47>> \o Pad2(c.day)
      [] order = "ydm" -> Decimal(c.year) \o <<47>> \o Pad2(c.day) \o <<47>> \o Pad2(c.month)

\* Date.String: "2006-01-02"
DateString(c) == Decimal(c.year) \o <<45>> \o Pad2(c.month) \o <<45>> \o Pad2(c.day)

\* a dateFormatOrDefault that answers "" for a value that is neither a Date
\* nor a Time
FilterDateFormatOrDefault_EmptyForOthers(x, format, defaultValue) ==
    IF x.t \notin {"date", "time"} THEN StrV(<<>>)
    ELSE IF x.t = "time" /\ ~NewFromTime(x).ok THEN defaultValue
    ELSE LET d == IF x.t = "date" THEN x ELSE NewFromTime(x).d
         IN  IF DateIsZero(d) THEN defaultValue
             ELSE IF format.s \in DOMAIN DateFormats
             THEN StrV(DateSprintf(Civil(d.n), DateFormats[format.s]))
             ELSE StrV(DateString(Civil(d.n)))

\* the filter dateFormatOrDefault: d is the Date s, the Date of the Time s,
\* or the zero Date for any other value; defaultValue when NewFromTime fails
\* or d is zero
FilterDateFormatOrDefault(x, format, defaultValue) ==
    IF x.t = "time" /\ ~NewFromTime(x).ok THEN defaultValue
    ELSE LET d == CASE x.t = "date" -> x
                    [] x.t = "time" -> NewFromTime(x).d
                    [] OTHER -> DateV(0)
         IN  IF DateIsZero(d) THEN defaultValue
             ELSE IF format.s \in DOMAIN DateFormats
             THEN StrV(DateSprintf(Civil(d.n), DateFormats[format.s]))
             ELSE StrV(DateString(Civil(d.n)))

\* x | date  and  x | date: fmt : "" for a value that is no date
FilterDate(x, args) ==
    LET t == DateInput(x)
    IN  IF ~t.ok THEN StrV(<<>>)
        ELSE IF args # <<>> /\ args[1] = StrV(StrFmtY) THEN StrV(Str2015)
        ELSE IF t.inst \div 2 = 1 THEN StrV(StrFri17)
        ELSE StrV(StrSat18)

\* the filters of the chains evaluated here
ChainFilters == {"default", "divided_by", "plus", "date"}

\* the least and the greatest number of arguments after the input
MinArgs(name) ==
    IF name \in {"date", "sort", "setContains", "setContainsAll"} THEN 0
    ELSE IF name \in {"timeInTimezone", "dateTimeFormatOrDefault",
                      "dateFormatOrDefault"} THEN 2
    ELSE 1
\* setContains and setContainsAll are variadic: they take whatever they are given
MaxArgs(name) ==
    IF name \in {"setContains", "setContainsAll"} THEN MaxMatches
    ELSE IF name \in {"timeInTimezone", "dateTimeFormatOrDefault",
                      "dateFormatOrDefault"} THEN 2
    ELSE 1

\* the callable registered under a name, applied to the input and arguments
Invoke(name, x, args) ==
    CASE name = "default" -> FilterDefault(x, args[1])
      [] name = "divided_by" -> FilterDividedBy(x, args[1])
      [] name = "plus" -> FilterPlus(x, args[1])
      [] name = "date" -> FilterDate(x, args)
      [] name = "split" -> FilterSplit(x, args[1])
      [] name = "sort" -> FilterSort(x, args)
      [] name = "timeInTimezone" -> FilterTimeInTimezone(x, args[1], args[2])
      [] name = "dateTimeFormatOrDefault" ->
            FilterDateTimeFormatOrDefault(x, args[1], args[2])
      [] name = "dateFormatOrDefault" ->
            FilterDateFormatOrDefault(x, args[1], args[2])
      [] name = "setContains" -> BoolV(SetContains(x, args))
      [] name = "setContainsAll" -> BoolV(SetContainsAll(x, args))
      [] name = "at_least" -> FilterAtLeast(x, args[1])
      [] name = "at_most" -> FilterAtMost(x, args[1])
      [] OTHER -> Nil

Outcome(e, v) == [err |-> e, val |-> v]

\* a dispatch that lets the failure of a filter surface as an error
Dispatch_Propagate(c, call, x) ==
    IF FindFilter(c, call.name) = "" THEN Outcome("UnknownFilter", Nil)
    ELSE IF Len(call.args) < MinArgs(call.name) \/ Len(call.args) > MaxArgs(call.name)
    THEN Outcome("WrongArity", Nil)
    ELSE IF call.name = "divided_by" /\ ViewNumber(call.args[1]).ok
            /\ ViewNumber(call.args[1]).num.n = 0
    THEN Outcome("ZeroDivision", Nil)
    ELSE Outcome("none", Invoke(call.name, x, call.args))

\* one filter of a chain applied to the current value
Dispatch(c, call, x) ==
    IF FindFilter(c, call.name) = "" THEN Outcome("UnknownFilter", Nil)
    ELSE IF Len(call.args) < MinArgs(call.name) \/ Len(call.args) > MaxArgs(call.name)
    THEN Outcome("WrongArity", Nil)
    ELSE Outcome("none", Invoke(call.name, x, call.args))

Call(name, args) == [name |-> name, args |-> args]

\* the divided_by cases of filterTests: input, argument, expected value
filterTests ==
    {<<IntV("int", 0, 16), IntV("int", 0, 4), IntV("int", 0, 4)>>,
     <<IntV("int", 0, 5), IntV("int", 0, 3), IntV("int", 0, 1)>>,
     <<IntV("int", 0, 20), IntV("int", 0, 7), IntV("int", 0, 2)>>,
     <<IntV("int", 0, 20), FloatV("float64", 0, 7, 1), FloatV("float64", 0, 20, 7)>>,
     <<IntV("int", 0, 20), StrV(StrS), Nil>>,
     <<IntV("int", 0, 20), IntV("int", 0, 0), Nil>>}

\* the head values and the filter calls the chains are made of
Heads ==
    {t[1] : t \in filterTests}
      \cup {Nil, IntV("int", 0, -7), StrV(Str7), StrV(StrDay1), StrV(StrS)}

Calls ==
    {Call("divided_by", <<t[2]>>) : t \in filterTests}
      \cup {Call("divided_by", <<IntV("int", 0, 2)>>),
            Call("divided_by", <<>>),
            Call("default", <<IntV("int", 0, 5)>>),
            Call("plus", <<IntV("int", 0, 1)>>),
            Call("date", <<>>),
            Call("date", <<StrV(StrFmtY)>>),
            Call("date", <<StrV(StrFmtY), StrV(StrFmtY)>>),
            Call("nosuch", <<>>)}

\* EvaluateString on a chain: the head value evaluated, no filter applied yet
EvalInit ==
    /\ chain \in SeqsUpTo(Calls, MaxChain)
    /\ \E h \in Heads : val = h /\ trace = <<h>>
    /\ pos = 1
    /\ err = "none"
    /\ EngStart
    /\ CmpIdle
    /\ RndIdle
    /\ OrdIdle

\* the filter at pos applied to the value so far
ApplyFilter ==
    /\ err = "none"
    /\ pos <= Len(chain)
    /\ LET r == Dispatch(cfg, chain[pos], val)
       IN  IF r.err # "none"
           THEN /\ err' = r.err
                /\ UNCHANGED <<val, pos, trace>>
           ELSE /\ val' = r.val
                /\ pos' = pos + 1
                /\ trace' = Append(trace, r.val)
                /\ UNCHANGED err
    /\ UNCHANGED chain
    /\ UNCHANGED <<cmpVars, engVars, rndVars, ordVars>>

EvalNext == ApplyFilter

SpecEval == EvalInit /\ [][EvalNext]_vars

(***************************************************************************)
(* One filter applied to one input, as a row of filterTests does.          *)
(***************************************************************************)
\* "true"
StrTrue == <<116, 114, 117, 101>>

Case(name, x, args) == [name |-> name, x |-> x, args |-> args]

\* the default rows of filterTests and further inputs of the same kinds
DefaultInputs ==
    {Nil, BoolV(FALSE), BoolV(TRUE), StrV(<<>>), StrV(StrTrue), StrV(StrA),
     IntV("int", 0, 0), IntV("int", 0, -1), IntV("int", 0, 7),
     FloatV("float64", 0, 0, 1), FloatV("float64", 0, 499, 100),
     SeqV("slice", <<>>), SeqV("array", <<>>), SeqV("mapslice", <<>>),
     SeqV("slice", <<StrV(StrA), StrV(StrB)>>), SeqV("slice", <<Nil>>),
     SeqV("mapslice", <<StrV(StrA)>>), MapV(0), MapV(1),
     TimeV(2, 0), DateV(1)}

DefaultCases ==
    {Case("default", x, <<d>>) :
        x \in DefaultInputs,
        d \in {FloatV("float64", 0, 299, 100), StrV(StrA), Nil, BoolV(FALSE)}}

\* the divided_by rows of filterTests and further operands of the same kinds
DividedByCases ==
    {Case("divided_by", x, <<y>>) :
        x \in {t[1] : t \in filterTests}
                \cup {IntV("int", 0, 5), IntV("int", 0, -7), IntV("int", 0, 0),
                      FloatV("float64", 0, 15, 2), FloatV("float64", 0, -7, 1),
                      StrV(StrS), StrV(<<>>), Nil, BoolV(TRUE)},
        y \in {t[2] : t \in filterTests}
                \cup {IntV("int", 0, -2), IntV("int", 0, 2),
                      FloatV("float64", 0, 0, 1), FloatV("float64", 0, 5, 2),
                      StrV(<<>>), Nil}}

\* "10", "10.5", "10.2", "20", "20.5", "0", "0.0"
Str10 == <<49, 48>>
Str10p5 == <<49, 48, 46, 53>>
Str10p2 == <<49, 48, 46, 50>>
Str20 == <<50, 48>>
Str20p5 == <<50, 48, 46, 53>>
Str0 == <<48>>
Str0p0 == <<48, 46, 48>>

\* the operands of the at_least and at_most rows of filterTests, and -3
ExtremeOperands ==
    {IntV("int", 0, 10), FloatV("float64", 0, 21, 2), StrV(Str10), StrV(Str10p5),
     IntV("int", 0, 20), FloatV("float64", 0, 41, 2), StrV(Str20), StrV(Str20p5),
     IntV("int", 0, 0), FloatV("float64", 0, 0, 1), StrV(Str0), StrV(Str0p0),
     StrV(<<>>), StrV(Str10p2), IntV("int", 0, -3)}

ExtremeCases ==
    {Case(name, x, <<y>>) :
        name \in {"at_least", "at_most"}, x \in ExtremeOperands, y \in ExtremeOperands}

\* the split rows of filterTests: string, separator, glue of the join that
\* follows, expected output
splitTests ==
    {
     \* "a/b/c" | split: "/" | join: "-"  gives  "a-b-c"
     <<<<97, 47, 98, 47, 99>>,
       <<47>>, <<45>>,
       <<97, 45, 98, 45, 99>>>>,
     \* "a/b/" | split: "/" | join: "-"  gives  "a-b"
     <<<<97, 47, 98, 47>>,
       <<47>>, <<45>>,
       <<97, 45, 98>>>>,
     \* "a//c" | split: "/" | join: "-"  gives  "a--c"
     <<<<97, 47, 47, 99>>,
       <<47>>, <<45>>,
       <<97, 45, 45, 99>>>>,
     \* "a//" | split: "/" | join: "-"  gives  "a"
     <<<<97, 47, 47>>,
       <<47>>, <<45>>,
       <<97>>>>,
     \* "/b/c" | split: "/" | join: "-"  gives  "-b-c"
     <<<<47, 98, 47, 99>>,
       <<47>>, <<45>>,
       <<45, 98, 45, 99>>>>,
     \* "/b/" | split: "/" | join: "-"  gives  "-b"
     <<<<47, 98, 47>>,
       <<47>>, <<45>>,
       <<45, 98>>>>,
     \* "//c" | split: "/" | join: "-"  gives  "--c"
     <<<<47, 47, 99>>,
       <<47>>, <<45>>,
       <<45, 45, 99>>>>,
     \* "//" | split: "/" | join: "-"  gives  ""
     <<<<47, 47>>,
       <<47>>, <<45>>,
       <<>>>>,
     \* "/" | split: "/" | join: "-"  gives  ""
     <<<<47>>,
       <<47>>, <<45>>,
       <<>>>>,
     \* "a.b" | split: "." | join: "-"  gives  "a-b"
     <<<<97, 46, 98>>,
       <<46>>, <<45>>,
       <<97, 45, 98>>>>,
     \* "a..b" | split: "." | join: "-"  gives  "a--b"
     <<<<97, 46, 46, 98>>,
       <<46>>, <<45>>,
       <<97, 45, 45, 98>>>>,
     \* "a.\t.b" | split: "." | join: "-"  gives  "a-\t-b"
     <<<<97, 46, 9, 46, 98>>,
       <<46>>, <<45>>,
       <<97, 45, 9, 45, 98>>>>,
     \* "a b" | split: " " | join: "-"  gives  "a-b"
     <<<<97, 32, 98>>,
       <<32>>, <<45>>,
       <<97, 45, 98>>>>,
     \* "a  b" | split: " " | join: "-"  gives  "a-b"
     <<<<97, 32, 32, 98>>,
       <<32>>, <<45>>,
       <<97, 45, 98>>>>,
     \* "a \t b" | split: " " | join: "-"  gives  "a-b"
     <<<<97, 32, 9, 32, 98>>,
       <<32>>, <<45>>,
       <<97, 45, 98>>>>,
     \* "John, Paul, George, Ringo" | split: ", " | join: " and "  gives  "John and Paul and George and Ringo"
     <<<<74, 111, 104, 110, 44, 32, 80, 97, 117, 108, 44, 32, 71, 101, 111, 114, 103, 101, 44, 32, 82, 105, 110, 103, 111>>,
       <<44, 32>>, <<32, 97, 110, 100, 32>>,
       <<74, 111, 104, 110, 32, 97, 110, 100, 32, 80, 97, 117, 108, 32, 97, 110, 100, 32, 71, 101, 111, 114, 103, 101, 32, 97, 110, 100, 32, 82, 105, 110, 103, 111>>>>,
     \* ",John, Paul, George, Ringo" | split: ", " | join: " and "  gives  ",John and Paul and George and Ringo"
     <<<<44, 74, 111, 104, 110, 44, 32, 80, 97, 117, 108, 44, 32, 71, 101, 111, 114, 103, 101, 44, 32, 82, 105, 110, 103, 111>>,
       <<44, 32>>, <<32, 97, 110, 100, 32>>,
       <<44, 74, 111, 104, 110, 32, 97, 110, 100, 32, 80, 97, 117, 108, 32, 97, 110, 100, 32, 71, 101, 111, 114, 103, 101, 32, 97, 110, 100, 32, 82, 105, 110, 103, 111>>>>,
     \* "John, Paul, George, Ringo," | split: ", " | join: " and "  gives  "John and Paul and George and Ringo,"
     <<<<74, 111, 104, 110, 44, 32, 80, 97, 117, 108, 44, 32, 71, 101, 111, 114, 103, 101, 44, 32, 82, 105, 110, 103, 111, 44>>,
       <<44, 32>>, <<32, 97, 110, 100, 32>>,
       <<74, 111, 104, 110, 32, 97, 110, 100, 32, 80, 97, 117, 108, 32, 97, 110, 100, 32, 71, 101, 111, 114, 103, 101, 32, 97, 110, 100, 32, 82, 105, 110, 103, 111, 44>>>>}

\* longest string split that is not a row of filterTests
MaxStr == 4

\* strings of the bytes a / and space, and the separators "/", " ", "//"
SplitCases ==
    {Case("split", StrV(t[1]), <<StrV(t[2])>>) : t \in splitTests}
      \cup {Case("split", StrV(str), <<StrV(sep)>>) :
                str \in SeqsUpTo({97, 47, 32}, MaxStr),
                sep \in {<<47>>, <<32>>, <<47, 47>>}}

\* "weight"
StrWeight == <<119, 101, 105, 103, 104, 116>>

\* the bindings animals and sort_prop of filterTestBindings
Animals ==
    SeqV("slice", <<StrV(<<122, 101, 98, 114, 97>>),
                    StrV(<<111, 99, 116, 111, 112, 117, 115>>),
                    StrV(<<103, 105, 114, 97, 102, 102, 101>>),
                    StrV(<<83, 97, 108, 108, 121, 32, 83, 110, 97, 107, 101>>)>>)

SortProp ==
    SeqV("slice", <<WeightMap(IntV("int", 0, 1)), WeightMap(IntV("int", 0, 5)),
                    WeightMap(IntV("int", 0, 3)), WeightMap(Nil)>>)

\* longest array sorted that is not a binding of filterTestBindings
MaxSort == 3

SortElems ==
    {Nil, IntV("int", 0, -1), IntV("int", 0, 1), FloatV("float64", 0, 1, 1),
     StrV(StrA), StrV(<<66>>)}

SortCases ==
    {Case("sort", Animals, <<>>), Case("sort", SortProp, <<StrV(StrWeight)>>)}
      \cup {Case("sort", SeqV("slice", e), <<>>) : e \in SeqsUpTo(SortElems, MaxSort)}
      \cup {Case("sort", SeqV("slice", [i \in DOMAIN e |-> WeightMap(e[i])]),
                  <<StrV(StrWeight)>>) :
                e \in SeqsUpTo({Nil, IntV("int", 0, -1), IntV("int", 0, 1)}, MaxSort)}

\* the members of the sets, and the values looked for in them: a b c d e
SetMembers == {<<97>>, <<98>>, <<99>>}
SetMatches == {StrV(<<97>>), StrV(<<99>>), StrV(<<100>>), StrV(<<101>>),
               IntV("int", 0, 1)}

\* the strings segs joined by glue
RECURSIVE Join(_, _)
Join(segs, glue) ==
    IF segs = <<>> THEN <<>>
    ELSE IF Len(segs) = 1 THEN segs[1]
    ELSE segs[1] \o glue \o Join(Tail(segs), glue)

\* a set of strings as a slice ([]string{"a", "b", "c"}) and as a string
\* ("a,b,c"); a slice of ints; values that are no set
SetForms ==
    {StrArray(e) : e \in SeqsUpTo(SetMembers, MaxSet)}
      \cup {StrV(Join(e, <<44>>)) : e \in SeqsUpTo(SetMembers, MaxSet)}
      \cup {SeqV("slice", <<IntV("int", 0, 1), IntV("int", 0, 2)>>),
            SeqV("array", <<StrV(<<97>>), StrV(<<99>>)>>),
            Nil, IntV("int", 0, 1), BoolV(TRUE), MapV(1)}

SetCases ==
    {Case(name, x, m) :
        name \in {"setContains", "setContainsAll"},
        x \in SetForms,
        m \in SeqsUpTo(SetMatches, MaxMatches)}

\* instants of 2015-12-31 and 2016-01-01 UTC: 00:05, 12:00, 15:04, 23:30, 00:10
Instants == {241925, 242640, 242824, 243330, 243370}

Clocks == {ClockV(i, z) : i \in Instants, z \in Zones}

\* "full", the name of no format
StrFull == <<102, 117, 108, 108>>

TimeCases ==
    {Case("timeInTimezone", t, <<StrV(tz), StrV(f)>>) :
        t \in Clocks,
        tz \in {<<>>, StrUTC, StrSydney, StrNewYork, StrKolkata, StrNoZone},
        f \in (DOMAIN TimeFormats) \cup {StrFull}}

\* the default values: "", "n/a" and "2015 Dec 31 15:04", which is also what
\* a format prints
Defaults == {<<>>, <<110, 47, 97>>, <<50, 48, 49, 53, 32, 68, 101, 99, 32, 51, 49, 32, 49, 53, 58, 48, 52>>}

DateTimeOrDefaultCases ==
    {Case("dateTimeFormatOrDefault", t, <<StrV(f), StrV(dv)>>) :
        t \in Clocks \cup {ZeroTimeV},
        f \in (DOMAIN TimeFormats) \cup {StrFull},
        dv \in Defaults}

\* Dates (the zero Date, 2015-07-17, 2015-12-31), Times, and values that are
\* neither
DateInputs ==
    {DateV(0), DateV(1), DateV(168), FarTimeV, Nil, StrV(StrDay1),
     BoolV(TRUE), IntV("int", 0, 5)} \cup Clocks

DateOrDefaultCases ==
    {Case("dateFormatOrDefault", x, <<StrV(f), StrV(dv)>>) :
        x \in DateInputs,
        f \in (DOMAIN DateFormats) \cup {StrFull},
        dv \in Defaults}

FilterCases ==
    DefaultCases \cup DividedByCases \cup ExtremeCases \cup SplitCases
      \cup SortCases \cup SetCases \cup TimeCases
      \cup DateTimeOrDefaultCases \cup DateOrDefaultCases

\* EvaluateString on one row: the input evaluated, the filter not yet applied
FilterInit ==
    /\ \E k \in FilterCases :
          /\ chain = <<Call(k.name, k.args)>>
          /\ val = k.x
          /\ trace = <<k.x>>
    /\ pos = 1
    /\ err = "none"
    /\ EngStart
    /\ CmpIdle
    /\ RndIdle
    /\ OrdIdle

SpecFilter == FilterInit /\ [][EvalNext]_vars

(***************************************************************************)
(* The comparison calls: the operands are drawn when the state is set up,  *)
(* and a call of Equal or of Less records its outcome.                     *)
(***************************************************************************)
CmpInit ==
    /\ fn = "none"
    /\ a \in Values
    /\ b \in Values
    /\ res = FALSE
    /\ panicked = FALSE
    /\ EngStart
    /\ EvalIdle
    /\ RndIdle
    /\ OrdIdle

CallEqual ==
    /\ fn = "none"
    /\ fn' = "Equal"
    /\ panicked' = EqualPanics(a, b)
    /\ res' = IF EqualPanics(a, b) THEN FALSE ELSE Equal(a, b)
    /\ UNCHANGED <<a, b>>
    /\ UNCHANGED <<engVars, evalVars, rndVars, ordVars>>

CallLess ==
    /\ fn = "none"
    /\ fn' = "Less"
    /\ panicked' = FALSE
    /\ res' = Less(a, b)
    /\ UNCHANGED <<a, b>>
    /\ UNCHANGED <<engVars, evalVars, rndVars, ordVars>>

CmpNext == CallEqual \/ CallLess

SpecCompare == CmpInit /\ [][CmpNext]_vars

(***************************************************************************)
(* Less on the three pairs of three operands, as a sort compares them.     *)
(***************************************************************************)
\* the operands: Nil, numbers, strings, bools, Times, Dates, an array, a map
OrdValues ==
    {Nil, BoolV(FALSE), BoolV(TRUE),
     IntV("int", 0, -1), IntV("int", 0, 0), IntV("int", 0, 1),
     IntV("int64", 1, 0), IntV("int64", 1, 1),
     FloatV("float64", 0, -1, 1), FloatV("float64", 0, 1, 2),
     FloatV("float64", 0, 1, 1), FloatV("float64", 1, 0, 1),
     StrV(StrEmpty), StrV(StrA), StrV(StrAB), StrV(StrDay1), StrV(StrDay2),
     TimeV(2, 0), TimeV(4, 0), DateV(1), DateV(2),
     SeqV("slice", <<>>), MapV(0)}

OrdInit ==
    /\ fn = "none"
    /\ a \in OrdValues
    /\ b \in OrdValues
    /\ third \in OrdValues
    /\ res = FALSE
    /\ panicked = FALSE
    /\ lts = <<FALSE, FALSE, FALSE>>
    /\ EngStart
    /\ EvalIdle
    /\ RndIdle

\* Less(a, b), Less(b, c) and Less(a, c) for the operands a, b, c
CallLessThrice ==
    /\ fn = "none"
    /\ fn' = "Less3"
    /\ lts' = <<Less(a, b), Less(b, third), Less(a, third)>>
    /\ UNCHANGED <<a, b, third, res, panicked>>
    /\ UNCHANGED <<engVars, evalVars, rndVars>>

OrdNext == CallLessThrice

SpecOrder == OrdInit /\ [][OrdNext]_vars

(***************************************************************************)
(* Properties of Equal and Less, under SpecCompare.                        *)
(***************************************************************************)
IsInt(v) == v.t \in IntTypes
IsFloat(v) == v.t \in FloatTypes
IsNumber(v) == IsInt(v) \/ IsFloat(v)
IsString(v) == v.t = "string"
IsTime(v) == v.t = "time"
IsDate(v) == v.t = "date"
IsArray(v) == v.t \in {"slice", "array"}

\* C1: Equal is true when both operands are Nil and false when exactly one
\* operand is Nil (Nil is never equal to "", an empty array, an empty map, 0
\* or false).
C1_EqualNil ==
    fn = "Equal" =>
        /\ (a = Nil /\ b = Nil => res /\ ~panicked)
        /\ ((a = Nil) # (b = Nil) => ~res /\ ~panicked)

C1_Witness ==
    /\ fn = "Equal"
    /\ a = Nil
    /\ b \in {StrV(StrEmpty), SeqV("slice", <<>>), MapV(0), IntV("int", 0, 0),
              BoolV(FALSE)}
    /\ ~res

\* C2: Equal on two numbers compares them by numeric value, whatever their
\* Int or Float types: equal values are equal, different values are not.
C2_NumbersByValue ==
    fn = "Equal" /\ IsNumber(a) /\ IsNumber(b) =>
        res = NumEq(NumOf(a), NumOf(b))

\* C3: Equal between a Time and a string, on either side, is true exactly
\* when the string parses to the instant of the Time; two Times are equal
\* exactly when they are the same instant.
C3_TimeEquality ==
    fn = "Equal" =>
        /\ (IsTime(a) /\ IsString(b) =>
                res = (ParseDate(b.s).ok /\ ParseDate(b.s).inst = a.n))
        /\ (IsString(a) /\ IsTime(b) =>
                res = (ParseDate(a.s).ok /\ ParseDate(a.s).inst = b.n))
        /\ (IsTime(a) /\ IsTime(b) => res = (a.n = b.n))

\* C4: Equal between two Dates is true exactly when they are the same
\* calendar date, and Equal between a Date and a string is true exactly when
\* the string parses to the calendar date of the Date.
C4_DateEquality ==
    fn = "Equal" =>
        /\ (IsDate(a) /\ IsDate(b) => res = (a.n = b.n))
        /\ (IsDate(a) /\ IsString(b) =>
                res = (ParseDate(b.s).ok /\ ParseDate(b.s).inst \div 2 = a.n))
        /\ (IsString(a) /\ IsDate(b) =>
                res = (ParseDate(a.s).ok /\ ParseDate(a.s).inst \div 2 = b.n))

\* C5: Less with exactly one Nil operand treats the Nil as the zero of the
\* other operand's kind ("" for a string, 0 for an Int, 0.0 for a Float);
\* Less(Nil, Nil) is false and Nil against any other kind is false in both
\* directions.
C5_LessNil ==
    fn = "Less" =>
        /\ (a = Nil /\ b = Nil => ~res)
        /\ (a = Nil /\ b # Nil =>
                res = IF IsString(b) THEN b.s # <<>>
                      ELSE IF IsNumber(b) THEN NumLess(Zero, NumOf(b))
                      ELSE FALSE)
        /\ (a # Nil /\ b = Nil =>
                res = IF IsString(a) THEN FALSE
                      ELSE IF IsNumber(a) THEN NumLess(NumOf(a), Zero)
                      ELSE FALSE)

\* the pairs of kinds Less is defined for
C6_Listed(x, y) ==
    \/ IsNumber(x) /\ IsNumber(y)
    \/ IsString(x) /\ IsString(y)
    \/ x.t = "bool" /\ y.t = "bool"
    \/ IsTime(x) /\ (IsTime(y) \/ IsString(y))
    \/ IsString(x) /\ IsTime(y)
    \/ IsDate(x) /\ (IsDate(y) \/ IsString(y))
    \/ IsString(x) /\ IsDate(y)

\* C6: Less on non-Nil operands is defined only for number vs number, string
\* vs string, bool vs bool (false < true), Time vs Time or string and Date vs
\* Date or string; for every other pairing of kinds it is false in both
\* operand orders.
C6_LessDefinedPairs ==
    fn = "Less" /\ a # Nil /\ b # Nil =>
        /\ (a.t = "bool" /\ b.t = "bool" => res = (a = BoolV(FALSE) /\ b = BoolV(TRUE)))
        /\ (~C6_Listed(a, b) => ~res)

\* C7: Less orders a Time against a Time or a parseable string by instant and
\* a Date against a Date or a parseable string by calendar date, the string
\* on either side; a string that does not parse gives false.
C7_LessTimeDate ==
    fn = "Less" =>
        /\ (IsTime(a) /\ IsTime(b) => res = (a.n < b.n))
        /\ (IsTime(a) /\ IsString(b) =>
                res = (ParseDate(b.s).ok /\ a.n < ParseDate(b.s).inst))
        /\ (IsString(a) /\ IsTime(b) =>
                res = (ParseDate(a.s).ok /\ ParseDate(a.s).inst < b.n))
        /\ (IsDate(a) /\ IsDate(b) => res = (a.n < b.n))
        /\ (IsDate(a) /\ IsString(b) =>
                res = (ParseDate(b.s).ok /\ a.n < ParseDate(b.s).inst \div 2))
        /\ (IsString(a) /\ IsDate(b) =>
                res = (ParseDate(a.s).ok /\ ParseDate(a.s).inst \div 2 < b.n))

C7_Witness ==
    /\ fn = "Less"
    /\ a = StrV(StrDay1)
    /\ b = TimeV(3, 0)
    /\ res

\* C8: Equal on two arrays or slices is true exactly when they have the same
\* length and Equal holds for the elements at every index.
C8_ArraysElementwise ==
    fn = "Equal" /\ IsArray(a) /\ IsArray(b) /\ ~panicked =>
        res = (/\ Len(a.e) = Len(b.e)
               /\ \A i \in 1..Len(a.e) : Equal(a.e[i], b.e[i]))

C8_Witness ==
    /\ fn = "Equal"
    /\ a = SeqV("slice", <<IntV("int", 0, 1), TimeV(2, 0)>>)
    /\ b = SeqV("slice", <<FloatV("float64", 0, 1, 1), StrV(StrDay1)>>)
    /\ res

(***************************************************************************)
(* Properties of the filter registry, under SpecEngine.                    *)
(***************************************************************************)
\* the callable of the most recent call, among the first k calls, that
\* registered name; the callable NewEngine left when there is none
RECURSIVE LastRegistered(_, _)
LastRegistered(name, k) ==
    IF k = 0 THEN FindFilter(NewEngine, name)
    ELSE IF calls[k].name = name THEN calls[k].fn
    ELSE LastRegistered(name, k - 1)

AllNames == (DOMAIN NewEngine) \cup RegNames \cup {"nosuch"}

\* C10: after any sequence of RegisterFilter calls the lookup of a name gives
\* the callable of the most recent registration under it, registering a name
\* again with the callable it has leaves the registry as it was, and the
\* entries under every other name are unchanged.
C10_LastWriterWins ==
    /\ \A name \in AllNames : FindFilter(cfg, name) = LastRegistered(name, Len(calls))
    /\ found # NoLookup => found.fn = LastRegistered(found.name, Len(calls))
    /\ calls # <<>> =>
          LET last == calls[Len(calls)]
          IN  /\ \A name \in AllNames \ {last.name} :
                    FindFilter(cfg, name) = FindFilter(prev, name)
              /\ (FindFilter(prev, last.name) = last.fn => cfg = prev)

\* a standard filter replaced by a later registration, then registered again
\* with the same callable, and looked up
C10_Witness ==
    /\ Len(calls) >= 2
    /\ calls[Len(calls)] = [name |-> "default", fn |-> "user1"]
    /\ calls[Len(calls) - 1] = [name |-> "default", fn |-> "user1"]
    /\ found = [name |-> "default", fn |-> "user1"]
    /\ cfg = prev
    /\ FindFilter(NewEngine, "default") = "std"

(***************************************************************************)
(* Properties of the evaluation of a filter chain, under SpecEval.         *)
(***************************************************************************)
NonNumeric(v) == ~IsNumber(v) /\ ~(IsString(v) /\ ParseNumber(v.s).ok)

IsZeroNumber(v) ==
    \/ (IsNumber(v) /\ v.big = 0 /\ v.n = 0)
    \/ (IsString(v) /\ ParseNumber(v.s).ok /\ ParseNumber(v.s).num.n = 0)

\* a filter call that fails inside the filter: a division by zero, a
\* non-numeric operand of an arithmetic filter, a date that does not parse
InternalFailure(call, x) ==
    \/ /\ call.name = "divided_by"
       /\ (NonNumeric(x) \/ NonNumeric(call.args[1]) \/ IsZeroNumber(call.args[1]))
    \/ /\ call.name = "plus"
       /\ (NonNumeric(x) \/ NonNumeric(call.args[1]))
    \/ /\ call.name = "date"
       /\ ~IsTime(x)
       /\ ~(IsDate(x) /\ x.n # 0)
       /\ ~(IsString(x) /\ ParseDate(x.s).ok)

WellFormed(call) ==
    /\ call.name \in StandardFilters
    /\ Len(call.args) >= MinArgs(call.name)
    /\ Len(call.args) <= MaxArgs(call.name)

\* two results equal as TestFilters compares them (an int as its float64)
SameResult(x, y) ==
    IF x = Nil \/ y = Nil THEN x = y
    ELSE IsNumber(x) /\ IsNumber(y) /\ NumEq(NumOf(x), NumOf(y))

C11_ConsistentSnapshot ==
    \A r \in Renders :
        /\ rpc[r] # "crashed"
        /\ rpc[r] = "running" => Snapshot(cfg, opts) = rsnap[r]
        /\ rpc[r] \in {"running", "done"} =>
              \A i \in 1..Len(rseen[r]) :
                  rseen[r][i].fn = FindFilter(rsnap[r].filters, rseen[r][i].name)

(***************************************************************************)
(* Properties of the filters, under SpecFilter.                            *)
(***************************************************************************)
\* the row applied: the filter has run on input x with arguments args
Applied(name) == pos = 2 /\ err = "none" /\ chain[1].name = name

\* the row ended: with a value, or with an error
Ended == pos = 2 \/ err # "none"

\* the empty values: Nil (also what an undefined variable evaluates to),
\* false, "", the empty array, the empty map and the empty ordered map
EmptyValues ==
    {Nil, BoolV(FALSE), StrV(<<>>), SeqV("slice", <<>>), SeqV("array", <<>>),
     MapV(0), SeqV("mapslice", <<>>)}

\* C12: x | default: d returns d exactly when x is empty (Nil or undefined,
\* false, "", the empty array, the empty map or the empty ordered map) and
\* returns x unchanged otherwise: true, "true", every number (0 included)
\* and a non-empty array are kept.
C12_Default ==
    /\ (Ended /\ chain[1].name = "default") => Applied("default")
    /\ Applied("default") =>
          /\ trace[1] \in EmptyValues => trace[2] = chain[1].args[1]
          /\ trace[1] \notin EmptyValues => trace[2] = trace[1]
          /\ val = trace[2]

\* the number 0 is kept, though the default offered differs from it
C12_Witness ==
    /\ Applied("default")
    /\ trace[1] = IntV("int", 0, 0)
    /\ chain[1].args[1] = FloatV("float64", 0, 299, 100)
    /\ val = IntV("int", 0, 0)

\* C13: x | divided_by: y returns Nil when y is zero and when either operand
\* cannot be viewed as a number, the integer quotient truncated towards
\* zero when both operands are Ints, and the Float quotient when either is
\* a Float; it never ends with an error.
C13_DividedBy ==
    /\ (Ended /\ chain[1].name = "divided_by") => Applied("divided_by")
    /\ Applied("divided_by") =>
          LET x == trace[1]
              y == chain[1].args[1]
              r == trace[2]
          IN  /\ (NonNumeric(x) \/ NonNumeric(y) \/ IsZeroNumber(y)) => r = Nil
              /\ (IsInt(x) /\ IsInt(y) /\ y.n # 0) =>
                    /\ IsInt(r)
                    /\ Abs(x.n - r.n * y.n) < Abs(y.n)
                    /\ (x.n - r.n * y.n = 0 \/ (x.n - r.n * y.n < 0) = (x.n < 0))
              /\ (IsNumber(x) /\ IsNumber(y) /\ (IsFloat(x) \/ IsFloat(y))
                    /\ y.n # 0) =>
                    /\ IsFloat(r)
                    /\ r.n * x.d * y.n = r.d * x.n * y.d

\* -7 divided by 2 is -3: the quotient is truncated towards zero
C13_Witness ==
    /\ Applied("divided_by")
    /\ chain[1].args = <<IntV("int", 0, 2)>>
    /\ trace = <<IntV("int", 0, -7), IntV("int", 0, -3)>>

\* the number each operand of the at_least and at_most rows is viewed as:
\* whether it is a float, and the fraction n / d
View(float, n, d) == [float |-> float, n |-> n, d |-> d]

Viewed(v) ==
    CASE IsInt(v) -> View(FALSE, v.n, 1)
      [] IsFloat(v) -> View(TRUE, v.n, v.d)
      [] v = StrV(Str10) -> View(FALSE, 10, 1)
      [] v = StrV(Str10p5) -> View(TRUE, 21, 2)
      [] v = StrV(Str10p2) -> View(TRUE, 51, 5)
      [] v = StrV(Str20) -> View(FALSE, 20, 1)
      [] v = StrV(Str20p5) -> View(TRUE, 41, 2)
      [] v = StrV(Str0) -> View(FALSE, 0, 1)
      [] v = StrV(Str0p0) -> View(TRUE, 0, 1)

\* C14: x | at_least: y and x | at_most: y return the empty string unchanged
\* when x or y is the empty string; otherwise they return the larger
\* (at_most: the smaller) of the numbers x and y are viewed as, a numeric
\* string counting as its number, as a Float when either operand views as a
\* float and as an Int otherwise.  The result depends on the two views
\* only, so not on which operand is given as a string.
C14_AtLeastAtMost ==
    /\ (Ended /\ chain[1].name \in {"at_least", "at_most"}) =>
          (pos = 2 /\ err = "none")
    /\ (Applied("at_least") \/ Applied("at_most")) =>
          LET x == trace[1]
              y == chain[1].args[1]
              r == trace[2]
          IN  IF x = StrV(<<>>) \/ y = StrV(<<>>) THEN r = StrV(<<>>)
              ELSE LET vx == Viewed(x)
                       vy == Viewed(y)
                       xfirst == IF chain[1].name = "at_least"
                                 THEN vx.n * vy.d >= vy.n * vx.d
                                 ELSE vx.n * vy.d <= vy.n * vx.d
                       w == IF xfirst THEN vx ELSE vy
                   IN  /\ r.t = (IF vx.float \/ vy.float THEN "float64" ELSE "int")
                       /\ r.big = 0
                       /\ r.n * w.d = w.n * r.d

\* "10.5" | at_least: 20 is the Float 20: the larger number, a Float because
\* the other operand views as a float
C14_Witness ==
    /\ Applied("at_least")
    /\ trace = <<StrV(Str10p5), FloatV("float64", 0, 20, 1)>>
    /\ chain[1].args = <<IntV("int", 0, 20)>>

\* k copies of sep
RECURSIVE Repeat(_, _)
Repeat(sep, k) == IF k = 0 THEN <<>> ELSE sep \o Repeat(sep, k - 1)

Contains(str, sep) ==
    \E i \in 1..(Len(str) - Len(sep) + 1) : SubSeq(str, i, i + Len(sep) - 1) = sep

\* segs are the segments of str between the separators sep, the empty ones
\* of consecutive and leading separators kept and those at the end dropped
SegmentsOf(segs, str, sep) ==
    /\ segs = <<>> \/ segs[Len(segs)] # <<>>
    /\ \A i \in 1..Len(segs) : ~Contains(segs[i], sep)
    /\ \E k \in 0..Len(str) : str = Join(segs, sep) \o Repeat(sep, k)

\* the result of a split as a sequence of byte strings
Segments(r) == [i \in 1..Len(r.e) |-> r.e[i].s]

\* C15 as stated: for every separator, split(str, sep) drops all trailing
\* empty segments and keeps the empty segments that consecutive or leading
\* separators produce elsewhere.
C15_SplitEverySeparator ==
    Applied("split") =>
        SegmentsOf(Segments(trace[2]), trace[1].s, chain[1].args[1].s)

\* C15, amended: for every separator other than " ", split(str, sep) drops
\* all trailing empty segments and keeps the empty segments that
\* consecutive or leading separators produce elsewhere ("a//c" gives
\* [a, "", c], "/b/" gives ["", b], "a//" gives [a], "//" and "/" give the
\* empty array); for the separator " " it gives the fields of str, the
\* non-empty pieces between runs of white space, so no empty segment at all.
C15_Split ==
    /\ (Ended /\ chain[1].name = "split") => Applied("split")
    /\ Applied("split") =>
          LET str == trace[1].s
              sep == chain[1].args[1].s
              segs == Segments(trace[2])
          IN  /\ trace[2].t = "slice"
              /\ \A i \in 1..Len(segs) : trace[2].e[i].t = "string"
              /\ sep # <<32>> => SegmentsOf(segs, str, sep)
              /\ sep = <<32>> =>
                    /\ \A i \in 1..Len(segs) :
                          segs[i] # <<>> /\ \A j \in 1..Len(segs[i]) : segs[i][j] \notin White
                    /\ Join(segs, <<>>) = SelectSeq(str, LAMBDA ch : ch \notin White)
              /\ \A t \in splitTests :
                    (str = t[1] /\ sep = t[2]) => Join(segs, t[3]) = t[4]

\* "/b/" split at "/" is ["", b]: the leading empty segment kept, the
\* trailing one dropped
C15_Witness ==
    /\ Applied("split")
    /\ trace[1] = StrV(<<47, 98, 47>>)
    /\ chain[1].args = <<StrV(<<47>>)>>
    /\ trace[2] = SeqV("slice", <<StrV(<<>>), StrV(<<98>>)>>)

\* x and y compare equal: neither is less than the other
SameRank(x, y) == ~Less(x, y) /\ ~Less(y, x)

\* C16: sort(arr, key?) returns a permutation of arr ordered by the natural
\* ordering of the elements (or of each element's value at key), keeps
\* elements that compare equal in their input order, and places Nil (or
\* elements whose key value is Nil) before every non-Nil value, so that the
\* first element of the result is never greater than the last.
C16_Sort ==
    Applied("sort") =>
        LET in == trace[1].e
            out == trace[2].e
            n == Len(in)
            k(v) == SortKey(v, chain[1].args)
        IN  /\ Len(out) = n
            /\ \E p \in [1..n -> 1..n] :
                  /\ \A i, j \in 1..n : i # j => p[i] # p[j]
                  /\ \A i \in 1..n : out[i] = in[p[i]]
                  /\ \A i, j \in 1..n :
                        (i < j /\ SameRank(k(out[i]), k(out[j]))) => p[i] < p[j]
            /\ \A i \in 1..(n - 1) : ~Less(k(out[i + 1]), k(out[i]))
            /\ \A i, j \in 1..n : (i < j /\ k(out[j]) = Nil) => k(out[i]) = Nil
            /\ n > 0 => ~Less(k(out[n]), k(out[1]))

\* s has the form of a set: a slice or a string
IsSet(s) == s.t \in {"slice", "string"}

\* m is a member of the set s: an element of the slice, or one of the
\* pieces of the string between its commas
Member(m, s) ==
    IF s.t = "slice" THEN \E i \in 1..Len(s.e) : s.e[i] = m
    ELSE /\ m.t = "string"
         /\ ~Contains(m.s, <<44>>)
         /\ Contains(<<44>> \o s.s \o <<44>>, <<44>> \o m.s \o <<44>>)

\* the string form of a slice of strings
StringForm(s) == StrV(Join([i \in 1..Len(s.e) |-> s.e[i].s], <<44>>))

IsStringSet(s) ==
    s.t = "slice" /\ s.e # <<>> /\ \A i \in 1..Len(s.e) : s.e[i].t = "string"

\* C17: setContainsAll(s, matches...) is true exactly when every one of
\* matches is a member of the set s, a slice or a comma-separated string:
\* for the set [a, b, c], matches [a, c] give true and [a, d] give false,
\* for both the slice form and the string form of the set; a nil s and an s
\* of any other kind give false.
C17_SetContainsAll ==
    /\ (Ended /\ chain[1].name = "setContainsAll") => Applied("setContainsAll")
    /\ Applied("setContainsAll") =>
          LET s == trace[1]
              m == chain[1].args
          IN  /\ trace[2] = BoolV(IsSet(s) /\ \A i \in 1..Len(m) : Member(m[i], s))
              /\ IsStringSet(s) =>
                    trace[2] = BoolV(SetContainsAll(StringForm(s), m))

\* C18: setContains(s, matches...) is true exactly when at least one of
\* matches is a member of the set s, a slice or a comma-separated string:
\* for the set [a, b, c], matches [a, d] give true and [d, e] give false,
\* with the same answer for the slice form and the string form of the set;
\* a nil s, an s of any other kind and an empty list of matches give false.
C18_SetContains ==
    /\ (Ended /\ chain[1].name = "setContains") => Applied("setContains")
    /\ Applied("setContains") =>
          LET s == trace[1]
              m == chain[1].args
          IN  /\ trace[2] = BoolV(IsSet(s) /\ \E i \in 1..Len(m) : Member(m[i], s))
              /\ IsStringSet(s) =>
                    trace[2] = BoolV(SetContains(StringForm(s), m))

\* the slice [a, b, c] holds one of the matches [d, a], the second one
C18_Witness ==
    /\ Applied("setContains")
    /\ trace[1] = StrArray(<<<<97>>, <<98>>, <<99>>>>)
    /\ chain[1].args = <<StrV(<<100>>), StrV(<<97>>)>>
    /\ trace[2] = BoolV(TRUE)

(***************************************************************************)
(* Algebraic properties of Equal and Less.                                 *)
(***************************************************************************)
\* C19: Equal is symmetric over the whole value space (Nil, bool, Int,
\* Float, string, array, Time, Date, phone): Equal(a, b) = Equal(b, a) for
\* all values a and b, the coercing pairs Time against string and phone
\* against string included.
C19_EqualSymmetric ==
    (fn = "Equal" /\ ~panicked /\ ~EqualPanics(b, a)) => res = Equal(b, a)

\* C20: Less is transitive over the whole value space, Nil included: if
\* Less(a, b) and Less(b, c) then Less(a, c), for all values a, b and c, so
\* that sorting with Less gives a well-defined order for arrays that mix
\* Nil, numbers and strings.
C20_LessTransitive ==
    fn = "Less3" => ((lts[1] /\ lts[2]) => lts[3])

\* C21: Less is asymmetric over the whole value space: Less(a, b) and
\* Less(b, a) are never both true, and Less(a, a) is false for every a
\* (Nil, numbers, strings, booleans, Times, Dates, and a Time or a Date
\* against a string).
C21_LessAsymmetric ==
    fn = "Less" =>
        /\ ~(res /\ Less(b, a))
        /\ a = b => ~res

\* the string of a day is less than the Time of the next day, and the Time
\* is not less than the string
C21_Witness ==
    /\ fn = "Less"
    /\ a = StrV(StrDay1)
    /\ b = TimeV(4, 0)
    /\ res
    /\ ~Less(b, a)

\* C22: Equal and Less are consistent: whenever Equal(a, b) is true, neither
\* Less(a, b) nor Less(b, a) is true, for all values a and b, an Int
\* against a Float and a Time against a string included.
C22_EqualLessConsistent ==
    (fn = "Equal" /\ ~panicked /\ res) => (~Less(a, b) /\ ~Less(b, a))

\* a Time equals the string of its instant, and neither is less than the other
C22_Witness ==
    /\ fn = "Equal"
    /\ a = TimeV(2, 0)
    /\ b = StrV(StrDay1)
    /\ res
    /\ ~Less(a, b)
    /\ ~Less(b, a)

(***************************************************************************)
(* Properties of the date and time filters, under SpecFilter.              *)
(***************************************************************************)
\* the year, month, day, hour and minute a text shows, read in the order of
\* its format: the date in three words, then "15:04" or "3:04 PM"
Shown(text, f) ==
    LET w == Split(text, <<32>>)
        ypos == IF f.order \in {"mdy", "dmy"} THEN 3 ELSE 1
        mpos == CASE f.order = "mdy" -> 1 [] f.order = "dmy" -> 2
                  [] f.order = "ymd" -> 2 [] f.order = "ydm" -> 3
        dpos == CASE f.order = "mdy" -> 2 [] f.order = "dmy" -> 1
                  [] f.order = "ymd" -> 3 [] f.order = "ydm" -> 2
        hm == Split(w[4], <<58>>)
        h == DigitsValue(hm[1])
    IN  [year |-> DigitsValue(w[ypos]), name |-> w[mpos], day |-> DigitsValue(w[dpos]),
         hour |-> IF f.hours = 24 THEN h
                  ELSE (h % 12) + (IF w[5] = <<80, 77>> THEN 12 ELSE 0),
         minute |-> DigitsValue(hm[2])]

\* the year, month, day, hour and minute of the instant of t in the zone z
WallIn(t, z) ==
    LET w == WallClock(ClockV(t.n, z))
    IN  [year |-> w.year, name |-> w.name, day |-> w.day,
         hour |-> w.hour, minute |-> w.minute]

\* C23: timeInTimezone(t, timezone, format) with a loadable timezone name
\* renders the wall-clock date and time of the instant t in the named
\* timezone for every recognized format (mdy12, mdy24, dmy12, dmy24, ymd12,
\* ymd24, ydm12, ydm24): for a fixed t and timezone all eight formats show
\* the same year, month, day, hour and minute, those of that wall clock,
\* and differ only in the order of the fields and the 12/24-hour notation.
C23_TimeInTimezone ==
    (/\ Applied("timeInTimezone")
     /\ LoadLocation(chain[1].args[1].s).ok
     /\ chain[1].args[2].s \in DOMAIN TimeFormats) =>
        Shown(trace[2].s, TimeFormats[chain[1].args[2].s])
          = WallIn(trace[1], LoadLocation(chain[1].args[1].s).zone)

\* the inputs for which dateFormatOrDefault has no Date to print: the zero
\* Date, a Time that converts to no Date, a value that is neither
NoDate(x) ==
    \/ x.t = "date" /\ x.n = 0
    \/ x = FarTimeV
    \/ x.t \notin {"date", "time"}

\* the result of the applied filter had its default value been dv
WithDefault(dv) ==
    Invoke(chain[1].name, trace[1], <<chain[1].args[1], StrV(dv)>>)

\* C24: dateTimeFormatOrDefault returns exactly defaultValue when its input
\* is the zero Time, and dateFormatOrDefault returns exactly defaultValue
\* when its input is the zero Date, a Time that converts to no Date, or a
\* value that is neither a Date nor a Time, whatever the format argument is;
\* for every other input the result does not depend on defaultValue.
C24_FormatOrDefault ==
    /\ Applied("dateTimeFormatOrDefault") =>
          IF trace[1] = ZeroTimeV
          THEN trace[2] = chain[1].args[2]
          ELSE \A dv \in Defaults : WithDefault(dv) = trace[2]
    /\ Applied("dateFormatOrDefault") =>
          IF NoDate(trace[1])
          THEN trace[2] = chain[1].args[2]
          ELSE \A dv \in Defaults : WithDefault(dv) = trace[2]

\* a string that is no Date is given to dateFormatOrDefault with the format
\* "ymd" and the default "n/a", and "n/a" is the result
C24_Witness ==
    /\ Applied("dateFormatOrDefault")
    /\ trace[1] = StrV(StrDay1)
    /\ chain[1].args = <<StrV(<<121, 109, 100>>), StrV(<<110, 47, 97>>)>>
    /\ trace[2] = StrV(<<110, 47, 97>>)

====
